---- MODULE Spec2Model ----
(***************************************************************************)
(* Crawl-and-index pipeline of the knowledge-base service                  *)
(* (crawler-service/crawler_service.py, crawler-service/rag_service.py,    *)
(* app/shared_crew_lib/tools/rag_tool.py).                                 *)
(*                                                                         *)
(* The module holds several specifications over one set of variables:      *)
(*   Spec           one crawl session (_crawl_website, _crawl_single_page) *)
(*   SpecChunk      one call of _split_text_into_chunks                    *)
(*   SpecProvision  calls of setup_infrastructure_for_kb                   *)
(*   SpecPipeline   submissions and their runs against the state store     *)
(*   SpecQuery      calls of the search tool against what runs left behind *)
(***************************************************************************)
EXTENDS Integers, Sequences, FiniteSets, TLC

(***************************************************************************)
(* Bounds of the model.                                                    *)
(***************************************************************************)
\* largest per-site page budget tried (max_pages_per_site is 50 in the code)
MaxBudget == 4
\* largest number of concurrent requests tried (max_concurrent_requests is 5)
MaxConcurrency == 2
\* paths 0..MaxPath exist on the seed's site
MaxPath == 4
\* longest list of <a href> links on one page
MaxLinks == 2
\* longest text given to the chunker
MaxTextLen == 8
\* largest max_chunk_size tried (the default is 1000)
MaxChunkSize == 7
\* chunks after which a run of the chunker is cut off
MaxChunks == 6
\* calls of setup_infrastructure_for_kb an administrator makes
MaxSetupCalls == 3
\* most pages a crawl hands to a pipeline run
MaxRunPages == 1
\* most chunks one page is split into in a pipeline run
MaxPageChunks == 3
\* datapoints per upsert_datapoints call (1000 in the code)
BatchLimit == 2
\* seconds the clock runs through
MaxClock == 2
\* submissions in one behaviour
MaxSubmits == 2
\* calls of the search tool in one behaviour
MaxQueries == 2
\* top_k of the tool's query
TopK == 3

(***************************************************************************)
(* URLs.  urlparse(u).netloc is the netloc field.                          *)
(***************************************************************************)
SeedNetloc == "site"
OtherNetloc == "ext"

Url(n, p) == [netloc |-> n, path |-> p]

SiteUrls == {Url(SeedNetloc, p) : p \in 0..MaxPath}
ExternalUrls == {Url(OtherNetloc, 0)}
AllUrls == SiteUrls \cup ExternalUrls

Netloc(u) == u.netloc

Range(s) == {s[i] : i \in 1..Len(s)}

Min(a, b) == IF a < b THEN a ELSE b

\* lists of distinct hrefs a page can carry
LinkLists == {s \in UNION {[1..n -> AllUrls] : n \in 0..MaxLinks} :
                 \A i, j \in 1..Len(s) : i # j => s[i] # s[j]}

\* a page that has not been requested yet has no known content
Unfetched == [fetched |-> FALSE, hrefs |-> <<>>]
Fetched(hrefs) == [fetched |-> TRUE, hrefs |-> hrefs]
\* _crawl_single_page returned None
None == [kind |-> "None"]
\* result slot of a task that has not completed
Pending == [kind |-> "pending"]

VARIABLES
    max_pages_per_site,      \* self.max_pages_per_site
    max_concurrent_requests, \* self.max_concurrent_requests
    base_url,                \* the seed
    web,                     \* the site: url -> list of hrefs of its page
    pages_data,              \* list of page records
    visited_urls,
    urls_to_visit,
    batch_urls,
    tasks,                   \* urls of the coroutines given to gather
    results,                 \* results of gather, by task
    holding,                 \* tasks inside "async with semaphore"
    fetches,                 \* history: url -> number of GETs issued
    cpc,                     \* position in _crawl_website
    text,                    \* _split_text_into_chunks: the arguments ...
    max_chunk_size,
    overlap,
    chunks,                  \* ... and the locals
    start,
    windows,                 \* history: the [start, end) each chunk was cut at
    kpc,                     \* position in _split_text_into_chunks
    indexes,                 \* Vertex AI: the indexes, by resource number
    endpoints,               \* Vertex AI: the index endpoints, by resource number
    setup_kb,                \* setup_infrastructure_for_kb: kb_id ...
    my_index,                \* ... and the locals
    my_endpoint,
    created,                 \* history: what the call in progress created
    spc,                     \* position in setup_infrastructure_for_kb
    setup_log,               \* history: the calls that ended
    kb_docs,                 \* Firestore: knowledge_base/{kb_id}
    chunk_docs,              \* Firestore: knowledge_base/{kb_id}/chunks/{id}
    run_kb,                  \* _crawl_and_index_website: kb_id ...
    text_chunks,             \* ... text_chunks_with_metadata
    upserted,                \* ... datapoints given to upsert_datapoints so far
    upsert_calls,            \* history: the upsert_datapoints calls of the run
    ppc,                     \* position in the pipeline run
    run_error,               \* ... the exception its except clause caught
    now,                     \* time.time(), in seconds
    status_log,              \* history: the status values each entry has held
    failed_writes,           \* history: this run's status updates that raised
    queue,                   \* the kb_ids submitted and not yet run
    run_writes,              \* history: the status updates this run has written
    dpc,                     \* position in a delete of a knowledge base
    del_via,                 \* the handler that deletes
    del_kb,                  \* its kb_id
    del_chunks,              \* the chunk documents its stream gave
    del_result,              \* what it reported
    deletes,                 \* deletes called so far
    chunk_docs_found,        \* _async_run: chunk_docs, what fetch_chunks_by_ids returned
    context,                 \* _async_run: the string it returns for them
    xpc,                     \* position in the assembly of the context
    embedding_model,         \* the embedding function in use: text -> vector
    chunk_metas,             \* _create_vector_index: text_chunks_with_metadata
    index_datapoints,        \* the datapoints of the index: id and vector
    stored_chunks,           \* the documents of the chunks subcollection
    query_text,              \* the text a query asks for
    query_results,           \* query: the (id, distance) pairs returned
    resolved,                \* the documents fetched for them
    rpc,                     \* position in the ingestion and the query
    responses,               \* what the site answers to the successive GETs of a url
    attempt,                 \* calls of the body of _crawl_single_page so far
    page_result,             \* what the decorated _crawl_single_page returned
    fpc,                     \* position in the decorated _crawl_single_page
    tool,                    \* RAGKnowledgeSearchTool: kb_id and the two names
    endpoint_cache,          \* RAGService._index_endpoint_cache
    in_loop,                 \* _run: an event loop is running in the caller
    neighbor_results,        \* _async_run: the ids query returned
    async_result,            \* what _async_run returned
    tool_result,             \* what _run did: returned a string, or raised
    qpc,                     \* position in the tool call
    queries,                 \* calls of _run so far
    q_failure                \* history: what failed in this call

crawlVars == <<max_pages_per_site, max_concurrent_requests, base_url, web,
               pages_data, visited_urls, urls_to_visit, batch_urls, tasks,
               results, holding, fetches, cpc>>

chunkVars == <<text, max_chunk_size, overlap, chunks, start, windows, kpc>>

provVars == <<indexes, endpoints, setup_kb, my_index, my_endpoint, created, spc,
              setup_log>>

pipeVars == <<kb_docs, chunk_docs, run_kb, text_chunks, upserted, upsert_calls, ppc,
              run_error, now, status_log, failed_writes, queue, run_writes>>

queryVars == <<tool, endpoint_cache, in_loop, neighbor_results, async_result,
               tool_result, qpc, queries, q_failure>>

deleteVars == <<dpc, del_via, del_kb, del_chunks, del_result, deletes>>

contextVars == <<chunk_docs_found, context, xpc>>
tripVars == <<embedding_model, chunk_metas, index_datapoints, stored_chunks,
              query_text, query_results, resolved, rpc>>
fetchVars == <<responses, attempt, page_result, fpc>>

vars == <<crawlVars, chunkVars, provVars, pipeVars, queryVars, deleteVars, contextVars, fetchVars, tripVars>>

notCrawl == <<chunkVars, provVars, pipeVars, queryVars, deleteVars, contextVars, fetchVars, tripVars>>
notChunk == <<crawlVars, provVars, pipeVars, queryVars, deleteVars, contextVars, fetchVars, tripVars>>
notProv == <<crawlVars, chunkVars, pipeVars, queryVars, deleteVars, contextVars, fetchVars, tripVars>>

\* the crawl session's variables but pages_data, which a pipeline run holds
crawlLocals == <<max_pages_per_site, max_concurrent_requests, base_url, web,
                 visited_urls, urls_to_visit, batch_urls, tasks, results, holding,
                 fetches, cpc>>

base_domain == Netloc(base_url)

(***************************************************************************)
(* _crawl_single_page: the links kept from a fetched page.                 *)
(***************************************************************************)
AllLinks(links) == links

SameDomainLinks(links) ==
    SelectSeq(links, LAMBDA l : Netloc(l) = base_domain)

PageResult(url, hrefs) ==
    [kind |-> "page", page_data |-> [url |-> url], new_urls |-> SameDomainLinks(hrefs)]

(***************************************************************************)
(* _crawl_website, lines 153-169: merging the results of one batch.        *)
(* st = [pages, visited, frontier]                                         *)
(***************************************************************************)
RECURSIVE AddNewUrls(_, _, _)
AddNewUrls(st, new_urls, k) ==
    IF k > Len(new_urls) THEN st
    ELSE LET new_url == new_urls[k]
             ok == /\ new_url \notin st.visited
                   /\ new_url \notin Range(st.frontier)
                   /\ Len(st.pages) + Len(st.frontier) < max_pages_per_site
         IN AddNewUrls(IF ok THEN [st EXCEPT !.frontier = Append(@, new_url)]
                             ELSE st,
                       new_urls, k + 1)

StopsAtFailure(b, r) ==
    IF \E k \in 1..Len(r) : r[k] = None
    THEN (CHOOSE k \in 1..Len(r) : r[k] = None /\ \A j \in 1..(k - 1) : r[j] # None) - 1
    ELSE Min(Len(b), Len(r))

\* zip(batch_urls, results) pairs by position and stops at the shorter list
ZipLen(b, r) == Min(Len(b), Len(r))

RECURSIVE MergeResults(_, _, _, _)
MergeResults(st, b, r, k) ==
    IF k > ZipLen(b, r) THEN st
    ELSE LET url == b[k]
             result == r[k]
             st1 == [st EXCEPT !.visited = @ \cup {url}]
             st2 == IF result = None THEN st1
                    ELSE AddNewUrls([st1 EXCEPT !.pages = Append(@, result.page_data)],
                                    result.new_urls, 1)
         IN MergeResults(st2, b, r, k + 1)

(***************************************************************************)
(* One crawl session.                                                      *)
(***************************************************************************)
CrawlInit ==
    /\ max_pages_per_site \in 1..MaxBudget
    /\ max_concurrent_requests \in 1..MaxConcurrency
    /\ base_url = Url(SeedNetloc, 0)
    /\ web = [u \in AllUrls |-> Unfetched]
    /\ pages_data = <<>>
    /\ visited_urls = {}
    /\ urls_to_visit = <<base_url>>
    /\ batch_urls = <<>>
    /\ tasks = <<>>
    /\ results = <<>>
    /\ holding = {}
    /\ fetches = [u \in AllUrls |-> 0]
    /\ cpc = "loop"

LoopCondition ==
    urls_to_visit # <<>> /\ Len(pages_data) < max_pages_per_site

NextBatch == SubSeq(urls_to_visit, 1, Min(max_concurrent_requests, Len(urls_to_visit)))
WholeFrontier == urls_to_visit

\* urls_to_visit[self.max_concurrent_requests:]
RestAfterBatch == SubSeq(urls_to_visit, Min(max_concurrent_requests, Len(urls_to_visit)) + 1,
                         Len(urls_to_visit))
Unfiltered(b) == b

UnvisitedOf(b) == SelectSeq(b, LAMBDA u : u \notin visited_urls)

\* lines 136-151: take a batch and start its fetches
StartBatch ==
    /\ cpc = "loop"
    /\ LoopCondition
    /\ UnvisitedOf(NextBatch) # <<>>
    /\ batch_urls' = NextBatch
    /\ urls_to_visit' = RestAfterBatch
    /\ tasks' = UnvisitedOf(NextBatch)
    /\ results' = [i \in 1..Len(UnvisitedOf(NextBatch)) |-> Pending]
    /\ holding' = {}
    /\ cpc' = "gather"
    /\ UNCHANGED <<max_pages_per_site, max_concurrent_requests, base_url, web,
                   pages_data, visited_urls, fetches,
                   notCrawl>>

\* lines 148-149: every url of the batch was visited already: continue
SkipBatch ==
    /\ cpc = "loop"
    /\ LoopCondition
    /\ UnvisitedOf(NextBatch) = <<>>
    /\ urls_to_visit' = RestAfterBatch
    /\ UNCHANGED <<max_pages_per_site, max_concurrent_requests, base_url, web,
                   pages_data, visited_urls, batch_urls, tasks, results, holding,
                   fetches, cpc,
                   notCrawl>>

\* line 180: a task enters the semaphore and issues its GET
AcquireSemaphore(i) ==
    /\ cpc = "gather"
    /\ results[i] = Pending
    /\ i \notin holding
    /\ Cardinality(holding) < max_concurrent_requests
    /\ holding' = holding \cup {i}
    /\ fetches' = [fetches EXCEPT ![tasks[i]] = @ + 1]
    /\ UNCHANGED <<max_pages_per_site, max_concurrent_requests, base_url, web,
                   pages_data, visited_urls, urls_to_visit, batch_urls, tasks,
                   results, cpc,
                   notCrawl>>

\* the largest path some fetched page (or the seed) has named so far
Named == LET ps == {0} \cup UNION {{web[u].hrefs[k].path : k \in 1..Len(web[u].hrefs)} : u \in AllUrls}
         IN CHOOSE m \in ps : \A q \in ps : q <= m

\* Urls are names: a page's hrefs name the urls no page has named before in
\* increasing order of path, the first of them Named + 1 (every link graph is
\* one of these up to renaming its urls)
FreshInOrder(hrefs) ==
    \A k \in 1..Len(hrefs) :
        (Netloc(hrefs[k]) = SeedNetloc /\ hrefs[k].path > Named) =>
            hrefs[k].path = Named + 1 +
                Cardinality({j \in 1..(k - 1) : Netloc(hrefs[j]) = SeedNetloc
                                                 /\ hrefs[j].path > Named})

\* lines 182-224: the response arrives and is parsed into a page and its links
FetchSucceeds(i) ==
    /\ cpc = "gather"
    /\ i \in holding
    /\ \E hrefs \in LinkLists :
          /\ web[tasks[i]] \in {Unfetched, Fetched(hrefs)}
          /\ web[tasks[i]] = Unfetched => FreshInOrder(hrefs)
          /\ web' = [web EXCEPT ![tasks[i]] = Fetched(hrefs)]
          /\ results' = [results EXCEPT ![i] = PageResult(tasks[i], hrefs)]
    /\ holding' = holding \ {i}
    /\ UNCHANGED <<max_pages_per_site, max_concurrent_requests, base_url,
                   pages_data, visited_urls, urls_to_visit, batch_urls, tasks,
                   fetches, cpc,
                   notCrawl>>

\* lines 183-188, 198-199, 226-228: non-200, non-HTML, empty text or an exception
FetchFails(i) ==
    /\ cpc = "gather"
    /\ i \in holding
    /\ results' = [results EXCEPT ![i] = None]
    /\ holding' = holding \ {i}
    /\ UNCHANGED <<max_pages_per_site, max_concurrent_requests, base_url, web,
                   pages_data, visited_urls, urls_to_visit, batch_urls, tasks,
                   fetches, cpc,
                   notCrawl>>

MergeEarly ==
    /\ cpc = "gather"
    /\ \E i \in 1..Len(results) : results[i] # Pending
    /\ LET st == MergeResults([pages |-> pages_data, visited |-> visited_urls,
                               frontier |-> urls_to_visit],
                              batch_urls,
                              [i \in 1..Len(results) |->
                                  IF results[i] = Pending THEN None ELSE results[i]],
                              1)
       IN /\ pages_data' = st.pages
          /\ visited_urls' = st.visited
          /\ urls_to_visit' = st.frontier
    /\ batch_urls' = <<>>
    /\ tasks' = <<>>
    /\ results' = <<>>
    /\ cpc' = "loop"
    /\ UNCHANGED <<max_pages_per_site, max_concurrent_requests, base_url, web,
                   holding, fetches,
                   notCrawl>>

\* lines 151-172: gather has every result; merge them, sleep, loop
MergeBatch ==
    /\ cpc = "gather"
    /\ \A i \in 1..Len(results) : results[i] # Pending
    /\ LET st == MergeResults([pages |-> pages_data, visited |-> visited_urls,
                               frontier |-> urls_to_visit],
                              batch_urls, results, 1)
       IN /\ pages_data' = st.pages
          /\ visited_urls' = st.visited
          /\ urls_to_visit' = st.frontier
    /\ batch_urls' = <<>>
    /\ tasks' = <<>>
    /\ results' = <<>>
    /\ cpc' = "loop"
    /\ UNCHANGED <<max_pages_per_site, max_concurrent_requests, base_url, web,
                   holding, fetches,
                   notCrawl>>

\* line 174: return pages_data
ReturnPages ==
    /\ cpc = "loop"
    /\ ~LoopCondition
    /\ cpc' = "done"
    /\ UNCHANGED <<max_pages_per_site, max_concurrent_requests, base_url, web,
                   pages_data, visited_urls, urls_to_visit, batch_urls, tasks,
                   results, holding, fetches,
                   notCrawl>>

TaskIds == 1..MaxConcurrency

CrawlNext ==
    \/ StartBatch
    \/ SkipBatch
    \/ \E i \in TaskIds : i <= Len(tasks) /\ AcquireSemaphore(i)
    \/ \E i \in TaskIds : i <= Len(tasks) /\ FetchSucceeds(i)
    \/ \E i \in TaskIds : i <= Len(tasks) /\ FetchFails(i)
    \/ MergeBatch
    \/ ReturnPages

\* no crawl session is running
CrawlIdle ==
    /\ max_pages_per_site = 1
    /\ max_concurrent_requests = 1
    /\ base_url = Url(SeedNetloc, 0)
    /\ web = [u \in AllUrls |-> Unfetched]
    /\ pages_data = <<>>
    /\ visited_urls = {}
    /\ urls_to_visit = <<>>
    /\ batch_urls = <<>>
    /\ tasks = <<>>
    /\ results = <<>>
    /\ holding = {}
    /\ fetches = [u \in AllUrls |-> 0]
    /\ cpc = "idle"

(***************************************************************************)
(* _split_text_into_chunks.  A text is a sequence of characters; Python's  *)
(* indices are 0-based and a negative slice index counts from the end.     *)
(***************************************************************************)
Period == "."
Newline == "\n"
Chars == {"a", Period, Newline}

Texts == UNION {[1..n -> Chars] : n \in 0..MaxTextLen}

Max(a, b) == IF a > b THEN a ELSE b

\* Python's clamping of a slice index
SliceIndex(t, i) == IF i < 0 THEN Max(i + Len(t), 0) ELSE Min(i, Len(t))

\* t[a:b]
Slice(t, a, b) ==
    IF SliceIndex(t, a) >= SliceIndex(t, b) THEN <<>>
    ELSE SubSeq(t, SliceIndex(t, a) + 1, SliceIndex(t, b))

\* t[a:]
SliceFrom(t, a) == Slice(t, a, Len(t))

\* t.rfind(c): the 0-based index of the last c, -1 when there is none
RFind(t, c) ==
    LET at == {i \in 1..Len(t) : t[i] = c}
    IN IF at = {} THEN -1 ELSE (CHOOSE i \in at : \A j \in at : j <= i) - 1

\* line 260
WindowEndPlusOne(s) == s + max_chunk_size + 1

WindowEnd(s) == s + max_chunk_size

\* lines 267-271
SplitPoint(s) ==
    LET chunk_text == Slice(text, s, WindowEnd(s))
    IN Max(RFind(chunk_text, Period), RFind(chunk_text, Newline))

\* lines 273-274: the end of the chunk cut from the window starting at s
CutEnd(s) ==
    IF SplitPoint(s) > s + (max_chunk_size \div 2)
    THEN s + SplitPoint(s) + 1
    ELSE WindowEnd(s)

\* line 277
NextStartSkipping(e) == e + 1

NextStart(e) == e - overlap

ChunkInit ==
    /\ max_chunk_size \in 1..MaxChunkSize
    /\ overlap \in 0..(max_chunk_size - 1)
    /\ text \in Texts
    /\ chunks = <<>>
    /\ start = 0
    /\ windows = <<>>
    /\ kpc = "entry"

ChunkIdle ==
    /\ max_chunk_size = 1
    /\ overlap = 0
    /\ text = <<>>
    /\ chunks = <<>>
    /\ start = 0
    /\ windows = <<>>
    /\ kpc = "idle"

\* lines 253-254
ReturnWholeText ==
    /\ kpc = "entry"
    /\ Len(text) <= max_chunk_size
    /\ chunks' = <<text>>
    /\ windows' = <<[start |-> 0, end |-> Len(text)]>>
    /\ kpc' = "done"
    /\ UNCHANGED <<text, max_chunk_size, overlap, start, notChunk>>

\* lines 256-257
EnterLoop ==
    /\ kpc = "entry"
    /\ Len(text) > max_chunk_size
    /\ chunks' = <<>>
    /\ start' = 0
    /\ kpc' = "loop"
    /\ UNCHANGED <<text, max_chunk_size, overlap, windows, notChunk>>

\* lines 259-264: the window reaches the end of the text
AppendLastChunk ==
    /\ kpc = "loop"
    /\ start < Len(text)
    /\ WindowEnd(start) >= Len(text)
    /\ chunks' = Append(chunks, SliceFrom(text, start))
    /\ windows' = Append(windows, [start |-> start, end |-> Len(text)])
    /\ kpc' = "done"
    /\ UNCHANGED <<text, max_chunk_size, overlap, start, notChunk>>

\* lines 259-277: cut one chunk and move the window
AppendChunk ==
    /\ kpc = "loop"
    /\ start < Len(text)
    /\ WindowEnd(start) < Len(text)
    /\ Len(chunks) < MaxChunks
    /\ chunks' = Append(chunks, Slice(text, start, CutEnd(start)))
    /\ windows' = Append(windows, [start |-> start, end |-> CutEnd(start)])
    /\ start' = NextStart(CutEnd(start))
    /\ UNCHANGED <<text, max_chunk_size, overlap, kpc, notChunk>>

ChunkNext ==
    \/ ReturnWholeText
    \/ EnterLoop
    \/ AppendLastChunk
    \/ AppendChunk

(***************************************************************************)
(* Knowledge-base ids and the names derived from them.  A string is a      *)
(* sequence of characters (a fixed prefix or suffix is one element).       *)
(***************************************************************************)
Domains == {<<"A", ".", "b">>}
Timestamps == {ToString(t) : t \in 1..MaxClock}

\* s.replace(a, b)
Replace(s, a, b) == [i \in 1..Len(s) |-> IF s[i] = a THEN b ELSE s[i]]

LowerChar(c) ==
    CASE c = "A" -> "a"
      [] c = "B" -> "b"
      [] c = "C" -> "c"
      [] c = "D" -> "d"
      [] OTHER -> c

\* s.lower()
Lower(s) == [i \in 1..Len(s) |-> LowerChar(s[i])]

\* _generate_kb_id
GenerateKbId(domain, timestamp) ==
    <<"k", "b", "_">> \o Replace(domain, ".", "_") \o <<"_", timestamp>>

KbIds == {GenerateKbId(d, t) : d \in Domains, t \in Timestamps}

NoKb == <<>>

\* rag_service.py lines 96-103
DisplayBaseName(kb_id) == Lower(Replace(kb_id, "_", "-"))
IndexDisplayName(kb_id) == DisplayBaseName(kb_id) \o <<"-", "i", "n", "d", "e", "x">>
EndpointDisplayName(kb_id) ==
    DisplayBaseName(kb_id) \o <<"-", "e", "n", "d", "p", "o", "i", "n", "t">>
DeployedIndexId(kb_id) ==
    <<"d", "e", "p", "l", "o", "y", "e", "d", "_">> \o Lower(kb_id)

(***************************************************************************)
(* setup_infrastructure_for_kb against the Vertex AI resources.            *)
(***************************************************************************)
\* MatchingEngineIndex.list(filter='display_name="..."'): resource numbers
NoneListed(resources, display_name) == {}

Listed(resources, display_name) ==
    {r \in 1..Len(resources) : resources[r].display_name = display_name}

\* indexes[0] of a non-empty list
First(rs) == CHOOSE r \in rs : \A q \in rs : r <= q

\* line 139-141
IsDeployed(endpoint, deployed_index_id) ==
    \E d \in endpoint.deployed_indexes : d.id = deployed_index_id

SetupReturnValue ==
    [index |-> my_index,
     endpoint_name |-> endpoints[my_endpoint].display_name,
     deployed_index_id |-> DeployedIndexId(setup_kb)]

NoReturnValue == [index |-> 0, endpoint_name |-> <<>>, deployed_index_id |-> <<>>]

\* what a call raised: the provider's "already exists" (ALREADY_EXISTS, 409)
\* or anything else
NoError == "none"
AlreadyExists == "already exists"
OtherError == "provisioning error"

RECURSIVE Count(_, _)
Count(seq, x) ==
    IF seq = <<>> THEN 0
    ELSE (IF Head(seq) = x THEN 1 ELSE 0) + Count(Tail(seq), x)

RECURSIVE SumOver(_, _)
SumOver(f, S) ==
    IF S = {} THEN 0
    ELSE LET x == CHOOSE y \in S : TRUE IN f[x] + SumOver(f, S \ {x})

Submits == SumOver([k \in KbIds |-> Count(status_log[k], "QUEUED")], KbIds)

\* the pipeline runs entered so far; 0 while only an administrator calls
RunsStarted == Submits - Len(queue)

\* line 142 takes the else branch: deploy_index is called
DeployDue ==
    /\ spc = "deploy"
    /\ ~IsDeployed(endpoints[my_endpoint], DeployedIndexId(setup_kb))

\* history of one call: deploy_calls counts its deploy_index calls, returned
\* or raised, deployed_before is line 139's is_deployed where it was
\* computed, run is the pipeline run that made the call
LogEntry(ok, deploy_issued, ret) ==
    [kb_id |-> setup_kb, ok |-> ok, created |-> created,
     deploy_issued |-> deploy_issued, ret |-> ret, error |-> NoError,
     deploy_calls |-> IF DeployDue THEN 1 ELSE 0,
     deployed_before |-> spc = "deploy" /\ ~DeployDue,
     run |-> RunsStarted]

ProvInit ==
    /\ indexes = <<>>
    /\ endpoints = <<>>
    /\ setup_kb = NoKb
    /\ my_index = 0
    /\ my_endpoint = 0
    /\ created = {}
    /\ spc = "idle"
    /\ setup_log = <<>>

\* the call, lines 91-103
BeginSetup(kb_id) ==
    /\ spc = "idle"
    /\ setup_kb' = kb_id
    /\ my_index' = 0
    /\ my_endpoint' = 0
    /\ created' = {}
    /\ spc' = "index"
    /\ UNCHANGED <<indexes, endpoints, setup_log>>

\* lines 105-108: an index of that display name exists
ReuseIndex ==
    /\ spc = "index"
    /\ Listed(indexes, IndexDisplayName(setup_kb)) # {}
    /\ my_index' = First(Listed(indexes, IndexDisplayName(setup_kb)))
    /\ spc' = "endpoint"
    /\ UNCHANGED <<indexes, endpoints, setup_kb, my_endpoint, created, setup_log,
                   notProv>>

\* lines 109-121: create_tree_ah_index
CreateIndex ==
    /\ spc = "index"
    /\ Listed(indexes, IndexDisplayName(setup_kb)) = {}
    /\ indexes' = Append(indexes, [display_name |-> IndexDisplayName(setup_kb),
                                   datapoints |-> {}])
    /\ my_index' = Len(indexes) + 1
    /\ created' = created \cup {"index"}
    /\ spc' = "endpoint"
    /\ UNCHANGED <<endpoints, setup_kb, my_endpoint, setup_log, notProv>>

\* lines 123-127
ReuseEndpoint ==
    /\ spc = "endpoint"
    /\ Listed(endpoints, EndpointDisplayName(setup_kb)) # {}
    /\ my_endpoint' = First(Listed(endpoints, EndpointDisplayName(setup_kb)))
    /\ spc' = "deploy"
    /\ UNCHANGED <<indexes, endpoints, setup_kb, my_index, created, setup_log,
                   notProv>>

\* lines 128-136: MatchingEngineIndexEndpoint.create
CreateEndpoint ==
    /\ spc = "endpoint"
    /\ Listed(endpoints, EndpointDisplayName(setup_kb)) = {}
    /\ endpoints' = Append(endpoints, [display_name |-> EndpointDisplayName(setup_kb),
                                       deployed_indexes |-> {}])
    /\ my_endpoint' = Len(endpoints) + 1
    /\ created' = created \cup {"endpoint"}
    /\ spc' = "deploy"
    /\ UNCHANGED <<indexes, setup_kb, my_index, setup_log, notProv>>

\* lines 139-145, 154: already deployed under the deployed index id
SkipDeploy ==
    /\ spc = "deploy"
    /\ IsDeployed(endpoints[my_endpoint], DeployedIndexId(setup_kb))
    /\ setup_log' = Append(setup_log, LogEntry(TRUE, FALSE, SetupReturnValue))
    /\ spc' = "returned"
    /\ UNCHANGED <<indexes, endpoints, setup_kb, my_index, my_endpoint, created,
                   notProv>>

DeployUnchecked ==
    /\ spc = "deploy"
    /\ endpoints' = [endpoints EXCEPT ![my_endpoint].deployed_indexes =
                        @ \cup {[id |-> DeployedIndexId(setup_kb), index |-> my_index]}]
    /\ setup_log' = Append(setup_log, [LogEntry(TRUE, TRUE, SetupReturnValue)
                                          EXCEPT !.deploy_calls = 1])
    /\ spc' = "returned"
    /\ UNCHANGED <<indexes, setup_kb, my_index, my_endpoint, created, notProv>>

\* lines 146-154: deploy_index
DeployIndex ==
    /\ spc = "deploy"
    /\ ~IsDeployed(endpoints[my_endpoint], DeployedIndexId(setup_kb))
    /\ endpoints' = [endpoints EXCEPT ![my_endpoint].deployed_indexes =
                        @ \cup {[id |-> DeployedIndexId(setup_kb), index |-> my_index]}]
    /\ setup_log' = Append(setup_log, LogEntry(TRUE, TRUE, SetupReturnValue))
    /\ spc' = "returned"
    /\ UNCHANGED <<indexes, setup_kb, my_index, my_endpoint, created, notProv>>

\* the call of the stage is a create or a deploy, not only a list
CreateOrDeployCalled ==
    \/ spc = "index" /\ Listed(indexes, IndexDisplayName(setup_kb)) = {}
    \/ spc = "endpoint" /\ Listed(endpoints, EndpointDisplayName(setup_kb)) = {}
    \/ spc = "deploy" /\ ~IsDeployed(endpoints[my_endpoint], DeployedIndexId(setup_kb))

\* a call to Vertex AI (list, create or deploy) raises: nothing catches it
\* here, whatever it is; "already exists" answers a create or a deploy
SetupRaises(e) ==
    /\ spc \in {"index", "endpoint", "deploy"}
    /\ e = AlreadyExists => CreateOrDeployCalled
    /\ setup_log' = Append(setup_log, [LogEntry(FALSE, FALSE, NoReturnValue)
                                          EXCEPT !.error = e])
    /\ spc' = "raised"
    /\ UNCHANGED <<indexes, endpoints, setup_kb, my_index, my_endpoint, created,
                   notProv>>

\* an administrator calls setup_infrastructure_for_kb
AdminCalls(kb_id) ==
    /\ Len(setup_log) < MaxSetupCalls
    /\ BeginSetup(kb_id)
    /\ UNCHANGED notProv

\* the call has returned or raised to the administrator
AdminDone ==
    /\ spc \in {"returned", "raised"}
    /\ spc' = "idle"
    /\ UNCHANGED <<indexes, endpoints, setup_kb, my_index, my_endpoint, created,
                   setup_log, notProv>>

ProvNext ==
    \/ \E kb_id \in KbIds : AdminCalls(kb_id)
    \/ ReuseIndex
    \/ CreateIndex
    \/ ReuseEndpoint
    \/ CreateEndpoint
    \/ SkipDeploy
    \/ DeployIndex
    \/ \E e \in {AlreadyExists, OtherError} : SetupRaises(e)
    \/ AdminDone

(***************************************************************************)
(* The pipeline run: trigger_crawling_from_event, _crawl_and_index_website *)
(* and _create_vector_index, against Firestore and Vertex AI.  One run is  *)
(* in progress at a time; a submission made meanwhile waits its turn.      *)
(***************************************************************************)
QUEUED == "QUEUED"
CRAWLING == "CRAWLING"
INDEXING == "INDEXING"
ACTIVE == "ACTIVE"
FAILED == "FAILED"

NoDoc == [exists |-> FALSE, status |-> "", error_message |-> "",
          indexed_pages |-> 0, total_pages |-> 0]

\* KnowledgeBaseEntry(kb_id=kb_id, url=url, status=QUEUED).model_dump()
NewEntry == [exists |-> TRUE, status |-> QUEUED, error_message |-> "",
             indexed_pages |-> 0, total_pages |-> 0]

\* the pages a crawl hands to the run
RunUrls == {Url(SeedNetloc, p) : p \in 0..(MaxRunPages - 1)}
RunPages == UNION {[1..n -> {[url |-> u] : u \in RunUrls}] : n \in 1..MaxRunPages}

\* f"{md5(url).hexdigest()}_{i}", md5 taken as injective
ChunkId(url, i) == [url_md5 |-> url, i |-> i]

\* the chunk metadata of one page that splits into n chunks
PageChunks(kb_id, page, n) ==
    [i \in 1..n |-> [id |-> ChunkId(page.url, i - 1), source_url |-> page.url,
                     kb_id |-> kb_id]]

RECURSIVE AllPageChunks(_, _, _)
AllPageChunks(kb_id, pages, counts) ==
    IF pages = <<>> THEN <<>>
    ELSE PageChunks(kb_id, Head(pages), Head(counts))
         \o AllPageChunks(kb_id, Tail(pages), Tail(counts))

StageStatusActiveOnFailure(pc) ==
    CASE pc = "set_crawling" -> CRAWLING
      [] pc = "set_indexing" -> INDEXING
      [] pc = "set_active" -> ACTIVE
      [] pc = "set_failed" -> ACTIVE

StageStatusNeverActive(pc) ==
    CASE pc = "set_crawling" -> CRAWLING
      [] pc = "set_indexing" -> INDEXING
      [] pc = "set_active" -> INDEXING
      [] pc = "set_failed" -> FAILED

\* the status each stage of the run writes
StageStatus(pc) ==
    CASE pc = "set_crawling" -> CRAWLING
      [] pc = "set_indexing" -> INDEXING
      [] pc = "set_active" -> ACTIVE
      [] pc = "set_failed" -> FAILED

AfterStatusSkippingCrawl(pc) ==
    CASE pc = "set_crawling" -> "chunk"
      [] pc = "set_indexing" -> "chunk"
      [] pc = "set_active" -> "idle"
      [] pc = "set_failed" -> "idle"

\* where the run goes after a status write, written or not
AfterStatus(pc) ==
    CASE pc = "set_crawling" -> "crawl"
      [] pc = "set_indexing" -> "chunk"
      [] pc = "set_active" -> "idle"
      [] pc = "set_failed" -> "idle"

\* the error_message a stage passes: only the except clause passes one
StageMessage(pc) == IF pc = "set_failed" THEN run_error ELSE ""

StatusStages == {"set_crawling", "set_indexing", "set_active", "set_failed"}

ExceptContinues == "set_active"

\* the except clause of the run
ExceptTarget == "set_failed"

\* update_data of _update_kb_status
StatusUpdate(doc, status, error_message) ==
    IF error_message # ""
    THEN [doc EXCEPT !.status = status, !.error_message = error_message]
    ELSE [doc EXCEPT !.status = status]

UpsertUnbatched(datapoints, i) == SubSeq(datapoints, i + 1, Len(datapoints))

\* datapoints[i:i + 1000]
UpsertBatch(datapoints, i) ==
    SubSeq(datapoints, i + 1, Min(i + BatchLimit, Len(datapoints)))

Ids(metas) == {metas[k].id : k \in 1..Len(metas)}

\* str(int(time.time()))
Timestamp(t) == ToString(t)

PipeInit ==
    /\ kb_docs = [k \in KbIds |-> NoDoc]
    /\ chunk_docs = {}
    /\ run_kb = NoKb
    /\ text_chunks = <<>>
    /\ upserted = 0
    /\ upsert_calls = <<>>
    /\ ppc = "idle"
    /\ run_error = ""
    /\ now = 1
    /\ status_log = [k \in KbIds |-> <<>>]
    /\ failed_writes = {}
    /\ queue = <<>>
    /\ run_writes = <<>>

\* the clock reaches the next second
Tick ==
    /\ now < MaxClock
    /\ now' = now + 1
    /\ UNCHANGED <<kb_docs, chunk_docs, run_kb, text_chunks, upserted, upsert_calls, ppc,
                   run_error, status_log, failed_writes, queue, run_writes,
                   crawlVars, chunkVars, provVars, queryVars, contextVars,
                   fetchVars, tripVars, deleteVars>>

\* trigger_crawling_from_event up to the call of _crawl_and_index_website:
\* the entry is set to QUEUED under the generated kb_id.  Submissions arrive
\* whether or not a run is in progress (one invocation per event)
Submit(domain) ==
    /\ Submits < MaxSubmits
    /\ LET kb_id == GenerateKbId(domain, Timestamp(now)) IN
          /\ kb_docs' = [kb_docs EXCEPT ![kb_id] = NewEntry]
          /\ status_log' = [status_log EXCEPT ![kb_id] = Append(@, QUEUED)]
          /\ queue' = Append(queue, kb_id)
    /\ UNCHANGED <<chunk_docs, run_kb, text_chunks, upserted, upsert_calls, ppc, run_error, now,
                   failed_writes, run_writes, crawlVars, chunkVars, provVars,
                   queryVars, contextVars, fetchVars, tripVars, deleteVars>>

\* _crawl_and_index_website is entered for the oldest submission
StartRun ==
    /\ ppc = "idle"
    /\ queue # <<>>
    /\ run_kb' = Head(queue)
    /\ queue' = Tail(queue)
    /\ ppc' = "set_crawling"
    /\ pages_data' = <<>>
    /\ text_chunks' = <<>>
    /\ upserted' = 0
    /\ upsert_calls' = <<>>
    /\ run_error' = ""
    /\ failed_writes' = {}
    /\ run_writes' = <<>>
    /\ setup_kb' = NoKb
    /\ my_index' = 0
    /\ my_endpoint' = 0
    /\ created' = {}
    /\ UNCHANGED <<kb_docs, chunk_docs, now, status_log, crawlLocals, chunkVars,
                   queryVars, contextVars, fetchVars, tripVars, deleteVars, indexes,
                   endpoints, spc, setup_log>>

\* _update_kb_status: the update is written; update() of a document that
\* does not exist raises
UpdateKbStatus ==
    /\ ppc \in StatusStages
    /\ kb_docs[run_kb].exists
    /\ kb_docs' = [kb_docs EXCEPT ![run_kb] = StatusUpdate(@, StageStatus(ppc), StageMessage(ppc))]
    /\ status_log' = [status_log EXCEPT ![run_kb] = Append(@, StageStatus(ppc))]
    /\ run_writes' = Append(run_writes, [status |-> StageStatus(ppc),
                                          error_message |-> StageMessage(ppc)])
    /\ ppc' = AfterStatus(ppc)
    /\ UNCHANGED <<chunk_docs, run_kb, text_chunks, upserted, upsert_calls, run_error, now,
                   failed_writes, queue, crawlVars, chunkVars, provVars,
                   queryVars, contextVars, fetchVars, tripVars, deleteVars>>

\* _update_kb_status: the update raises, which is logged
UpdateKbStatusFails ==
    /\ ppc \in StatusStages
    /\ failed_writes' = failed_writes \cup {StageStatus(ppc)}
    /\ ppc' = AfterStatus(ppc)
    /\ UNCHANGED <<kb_docs, chunk_docs, run_kb, text_chunks, upserted, upsert_calls, run_error,
                   now, status_log, queue, run_writes, crawlVars, chunkVars,
                   provVars, queryVars, contextVars, fetchVars, tripVars,
                   deleteVars>>

\* an exception reaches the except clause of _crawl_and_index_website
Caught(message) ==
    /\ run_error' = message
    /\ ppc' = ExceptTarget

\* int(time.time()) of the submission, read back from the kb_id
SubmittedAt(kb_id) == kb_id[Len(kb_id)]

\* await asyncio.sleep(1) after each batch: a crawl ends in a later second
\* than the one its submission was stamped with
Slept == Timestamp(now) # SubmittedAt(run_kb)

\* the crawl returns its pages
CrawlReturns ==
    /\ ppc = "crawl"
    /\ Slept
    /\ \E pages \in RunPages : pages_data' = pages
    /\ ppc' = "update_pages"
    /\ UNCHANGED <<kb_docs, chunk_docs, run_kb, text_chunks, upserted, upsert_calls, run_error,
                   now, status_log, failed_writes, queue, run_writes, crawlLocals,
                   chunkVars, provVars, queryVars, contextVars, fetchVars, tripVars,
                   deleteVars>>

\* the crawl returns no page: ValueError
CrawlReturnsNothing ==
    /\ ppc = "crawl"
    /\ Slept
    /\ pages_data' = <<>>
    /\ Caught("No valid content was crawled")
    /\ UNCHANGED <<kb_docs, chunk_docs, run_kb, text_chunks, upserted, upsert_calls, now,
                   status_log, failed_writes, queue, run_writes, crawlLocals,
                   chunkVars, provVars, queryVars, contextVars, fetchVars, tripVars,
                   deleteVars>>

\* _update_kb_pages: written, or raised and logged
UpdateKbPages ==
    /\ ppc = "update_pages"
    /\ \/ /\ kb_docs[run_kb].exists
          /\ kb_docs' = [kb_docs EXCEPT ![run_kb].indexed_pages = Len(pages_data),
                                        ![run_kb].total_pages = Len(pages_data)]
       \/ UNCHANGED kb_docs
    /\ ppc' = "set_indexing"
    /\ UNCHANGED <<chunk_docs, run_kb, text_chunks, upserted, upsert_calls, run_error, now,
                   status_log, failed_writes, queue, run_writes, crawlVars,
                   chunkVars, provVars, queryVars, contextVars, fetchVars, tripVars,
                   deleteVars>>

\* _create_vector_index: the pages are split and the metadata built; a page's
\* content is not empty, so each page gives at least one chunk
ChunkPages ==
    /\ ppc = "chunk"
    /\ \E counts \in [1..Len(pages_data) -> 1..MaxPageChunks] :
          text_chunks' = AllPageChunks(run_kb, pages_data, counts)
    /\ ppc' = "embed"
    /\ UNCHANGED <<kb_docs, chunk_docs, run_kb, upserted, upsert_calls, run_error, now,
                   status_log, failed_writes, queue, run_writes, crawlVars,
                   chunkVars, provVars, queryVars, contextVars, fetchVars, tripVars,
                   deleteVars>>

\* get_embeddings returns and setup_infrastructure_for_kb is called
EmbedReturns ==
    /\ ppc = "embed"
    /\ BeginSetup(run_kb)
    /\ ppc' = "provision"
    /\ UNCHANGED <<kb_docs, chunk_docs, run_kb, text_chunks, upserted, upsert_calls, run_error,
                   now, status_log, failed_writes, queue, run_writes, crawlVars,
                   chunkVars, queryVars, contextVars, fetchVars, tripVars,
                   deleteVars>>

\* get_embeddings raises
EmbedRaises ==
    /\ ppc = "embed"
    /\ Caught("embedding error")
    /\ UNCHANGED <<kb_docs, chunk_docs, run_kb, text_chunks, upserted, upsert_calls, now,
                   status_log, failed_writes, queue, run_writes, crawlVars,
                   chunkVars, provVars, queryVars, contextVars, fetchVars, tripVars,
                   deleteVars>>

\* setup_infrastructure_for_kb returns
ProvisionReturns ==
    /\ ppc = "provision"
    /\ spc = "returned"
    /\ spc' = "idle"
    /\ ppc' = "upsert"
    /\ UNCHANGED <<kb_docs, chunk_docs, run_kb, text_chunks, upserted, upsert_calls, run_error,
                   now, status_log, failed_writes, queue, run_writes, crawlVars,
                   chunkVars, queryVars, contextVars, fetchVars, tripVars,
                   deleteVars, indexes, endpoints, setup_kb, my_index,
                   my_endpoint, created, setup_log>>

\* setup_infrastructure_for_kb raises
ProvisionRaises ==
    /\ ppc = "provision"
    /\ spc = "raised"
    /\ spc' = "idle"
    /\ Caught(setup_log[Len(setup_log)].error)
    /\ UNCHANGED <<kb_docs, chunk_docs, run_kb, text_chunks, upserted, upsert_calls, now,
                   status_log, failed_writes, queue, run_writes, crawlVars,
                   chunkVars, queryVars, contextVars, fetchVars, tripVars,
                   deleteVars, indexes, endpoints, setup_kb, my_index,
                   my_endpoint, created, setup_log>>

UpsertSkipped == TRUE

\* for i in range(0, len(datapoints), 1000) has run out
UpsertDone == upserted >= Len(text_chunks)

\* upsert_to_vector_search: one upsert_datapoints call returns
UpsertOneBatch ==
    /\ ppc = "upsert"
    /\ ~UpsertDone
    /\ indexes' = [indexes EXCEPT ![my_index].datapoints =
                      @ \cup Ids(UpsertBatch(text_chunks, upserted))]
    /\ upserted' = upserted + Len(UpsertBatch(text_chunks, upserted))
    /\ upsert_calls' = Append(upsert_calls, [batch |-> UpsertBatch(text_chunks, upserted),
                                               returned |-> TRUE])
    /\ UNCHANGED <<kb_docs, chunk_docs, run_kb, text_chunks, ppc, run_error, now,
                   status_log, failed_writes, queue, run_writes, crawlVars,
                   chunkVars, queryVars, contextVars, fetchVars, tripVars,
                   deleteVars, endpoints, setup_kb, my_index, my_endpoint,
                   created, spc, setup_log>>

\* upsert_to_vector_search: an upsert_datapoints call raises
UpsertRaises ==
    /\ ppc = "upsert"
    /\ ~UpsertDone
    /\ upsert_calls' = Append(upsert_calls, [batch |-> UpsertBatch(text_chunks, upserted),
                                               returned |-> FALSE])
    /\ Caught("upsert error")
    /\ UNCHANGED <<kb_docs, chunk_docs, run_kb, text_chunks, upserted, now,
                   status_log, failed_writes, queue, run_writes, crawlVars,
                   chunkVars, provVars, queryVars, contextVars, fetchVars, tripVars,
                   deleteVars>>

\* the chunk metadata is committed to knowledge_base/{kb_id}/chunks
StoreChunks ==
    /\ ppc = "upsert"
    /\ UpsertDone
    /\ chunk_docs' = chunk_docs \cup
                        {[kb_id |-> run_kb, id |-> text_chunks[k].id] :
                            k \in 1..Len(text_chunks)}
    /\ ppc' = "set_active"
    /\ UNCHANGED <<kb_docs, run_kb, text_chunks, upserted, upsert_calls, run_error, now,
                   status_log, failed_writes, queue, run_writes, crawlVars,
                   chunkVars, provVars, queryVars, contextVars, fetchVars, tripVars,
                   deleteVars>>

\* batch.commit() raises
StoreChunksRaises ==
    /\ ppc = "upsert"
    /\ UpsertDone
    /\ Caught("metadata write error")
    /\ UNCHANGED <<kb_docs, chunk_docs, run_kb, text_chunks, upserted, upsert_calls, now,
                   status_log, failed_writes, queue, run_writes, crawlVars,
                   chunkVars, provVars, queryVars, contextVars, fetchVars, tripVars,
                   deleteVars>>

PipeNext ==
    \/ Tick
    \/ \E d \in Domains : Submit(d)
    \/ StartRun
    \/ UpdateKbStatus
    \/ UpdateKbStatusFails
    \/ CrawlReturns
    \/ CrawlReturnsNothing
    \/ UpdateKbPages
    \/ ChunkPages
    \/ EmbedReturns
    \/ EmbedRaises
    \/ ppc = "provision" /\ ReuseIndex
    \/ ppc = "provision" /\ CreateIndex
    \/ ppc = "provision" /\ ReuseEndpoint
    \/ ppc = "provision" /\ CreateEndpoint
    \/ ppc = "provision" /\ SkipDeploy
    \/ ppc = "provision" /\ DeployIndex
    \/ ppc = "provision" /\ \E e \in {AlreadyExists, OtherError} : SetupRaises(e)
    \/ ProvisionReturns
    \/ ProvisionRaises
    \/ UpsertOneBatch
    \/ UpsertRaises
    \/ StoreChunks
    \/ StoreChunksRaises

(***************************************************************************)
(* Deleting a knowledge base: the endpoint delete_knowledge_entry of the   *)
(* orchestrator and CrawlerService.delete_knowledge_base.  Both run in a   *)
(* process of their own, whatever a pipeline run is doing.                 *)
(***************************************************************************)
MaxDeletes == 1

NoDelete == "none"
DeleteOk == "ok"
DeleteNotFound == "not found"
DeleteFailed == "failed"

\* chunks_collection.stream() for kb_id
ChunksOf(kb_id) == {c \in chunk_docs : c.kb_id = kb_id}

\* no single page is being fetched on its own
FetchIdle ==
    /\ responses = <<>>
    /\ attempt = 0
    /\ page_result = Pending
    /\ fpc = "idle"

\* nothing is being ingested for a query
TripIdle ==
    /\ embedding_model = <<>>
    /\ chunk_metas = <<>>
    /\ index_datapoints = {}
    /\ stored_chunks = {}
    /\ query_text = ""
    /\ query_results = <<>>
    /\ resolved = <<>>
    /\ rpc = "idle"

\* no context is being assembled
ContextIdle ==
    /\ chunk_docs_found = <<>>
    /\ context = <<>>
    /\ xpc = "idle"

DeleteIdle ==
    /\ dpc = "idle"
    /\ del_via = "none"
    /\ del_kb = NoKb
    /\ del_chunks = {}
    /\ del_result = NoDelete
    /\ deletes = 0

\* delete_knowledge_entry: the entry exists and its chunks are to be streamed
DeleteEntryBegins(kb_id) ==
    /\ dpc = "idle"
    /\ deletes < MaxDeletes
    /\ kb_docs[kb_id].exists
    /\ deletes' = deletes + 1
    /\ del_via' = "endpoint"
    /\ del_kb' = kb_id
    /\ del_chunks' = {}
    /\ del_result' = NoDelete
    /\ dpc' = "stream"
    /\ UNCHANGED <<crawlVars, chunkVars, provVars, pipeVars, queryVars,
                   contextVars, fetchVars, tripVars>>

\* delete_knowledge_entry: there is no such entry: 404
DeleteEntryNotFound(kb_id) ==
    /\ dpc = "idle"
    /\ deletes < MaxDeletes
    /\ ~kb_docs[kb_id].exists
    /\ deletes' = deletes + 1
    /\ del_via' = "endpoint"
    /\ del_kb' = kb_id
    /\ del_chunks' = {}
    /\ del_result' = DeleteNotFound
    /\ UNCHANGED <<dpc, crawlVars, chunkVars, provVars, pipeVars, queryVars,
                   contextVars, fetchVars, tripVars>>

\* the kb_ids a caller can know of: those some submission has produced
Submitted == {k \in KbIds : status_log[k] # <<>>}

\* delete_knowledge_base: the main record is deleted first, there or not
DeleteKbBegins(kb_id) ==
    /\ dpc = "idle"
    /\ deletes < MaxDeletes
    /\ deletes' = deletes + 1
    /\ del_via' = "service"
    /\ del_kb' = kb_id
    /\ del_chunks' = {}
    /\ del_result' = NoDelete
    /\ kb_docs' = [kb_docs EXCEPT ![kb_id] = NoDoc]
    /\ dpc' = "stream"
    /\ UNCHANGED <<chunk_docs, run_kb, text_chunks, upserted, upsert_calls, ppc, run_error, now,
                   status_log, failed_writes, queue, run_writes, crawlVars,
                   chunkVars, provVars, queryVars, contextVars, fetchVars,
                   tripVars>>

\* the stream of the chunks subcollection gives the documents now stored
StreamChunks ==
    /\ dpc = "stream"
    /\ del_chunks' = ChunksOf(del_kb)
    /\ dpc' = "chunks"
    /\ UNCHANGED <<del_via, del_kb, del_result, deletes, crawlVars, chunkVars,
                   provVars, pipeVars, queryVars, contextVars, fetchVars, tripVars>>

\* delete_knowledge_entry: each streamed chunk is deleted
DeleteEntryChunks ==
    /\ dpc = "chunks"
    /\ del_via = "endpoint"
    /\ chunk_docs' = chunk_docs \ del_chunks
    /\ dpc' = "doc"
    /\ UNCHANGED <<kb_docs, run_kb, text_chunks, upserted, upsert_calls, ppc, run_error, now,
                   status_log, failed_writes, queue, run_writes, del_via, del_kb,
                   del_chunks, del_result, deletes, crawlVars, chunkVars, provVars,
                   queryVars, contextVars, fetchVars, tripVars>>

\* delete_knowledge_entry: the main document is deleted: 200
DeleteEntryDoc ==
    /\ dpc = "doc"
    /\ kb_docs' = [kb_docs EXCEPT ![del_kb] = NoDoc]
    /\ del_result' = DeleteOk
    /\ dpc' = "idle"
    /\ del_chunks' = {}
    /\ UNCHANGED <<chunk_docs, run_kb, text_chunks, upserted, upsert_calls, ppc, run_error, now,
                   status_log, failed_writes, queue, run_writes, del_via, del_kb,
                   deletes, crawlVars, chunkVars, provVars, queryVars,
                   contextVars, fetchVars, tripVars>>

\* delete_knowledge_base: the batch of deletes is committed: True
DeleteKbChunks ==
    /\ dpc = "chunks"
    /\ del_via = "service"
    /\ chunk_docs' = chunk_docs \ del_chunks
    /\ del_result' = DeleteOk
    /\ dpc' = "idle"
    /\ del_chunks' = {}
    /\ UNCHANGED <<kb_docs, run_kb, text_chunks, upserted, upsert_calls, ppc, run_error, now,
                   status_log, failed_writes, queue, run_writes, del_via, del_kb,
                   deletes, crawlVars, chunkVars, provVars, queryVars,
                   contextVars, fetchVars, tripVars>>

\* a Firestore call of the delete raises: HTTP 500, or False; the endpoint
\* has deleted the chunks that came before the one whose delete raised
DeleteRaises ==
    /\ dpc # "idle"
    /\ \E gone \in SUBSET del_chunks :
          /\ gone # {} => (dpc = "chunks" /\ del_via = "endpoint" /\ gone # del_chunks)
          /\ chunk_docs' = chunk_docs \ gone
    /\ del_result' = DeleteFailed
    /\ dpc' = "idle"
    /\ del_chunks' = {}
    /\ UNCHANGED <<kb_docs, run_kb, text_chunks, upserted, upsert_calls, ppc, run_error, now,
                   status_log, failed_writes, queue, run_writes, del_via, del_kb,
                   deletes, crawlVars, chunkVars, provVars, queryVars,
                   contextVars, fetchVars, tripVars>>

DeleteNext ==
    \/ \E kb_id \in KbIds : DeleteEntryBegins(kb_id)
    \/ \E kb_id \in KbIds : DeleteEntryNotFound(kb_id)
    \/ \E kb_id \in Submitted : DeleteKbBegins(kb_id)
    \/ StreamChunks
    \/ DeleteEntryChunks
    \/ DeleteEntryDoc
    \/ DeleteKbChunks
    \/ DeleteRaises

\* the store under submissions, pipeline runs and deletes
StoreNext ==
    \/ PipeNext
    \/ DeleteNext

(***************************************************************************)
(* The knowledge-base search tool: RAGKnowledgeSearchTool._run and         *)
(* _async_run over RAGService.query, _get_index_endpoint and               *)
(* fetch_chunks_by_ids.                                                    *)
(***************************************************************************)
NoRelevantContext == "No relevant context information found in the knowledge base."
CouldNotRetrieve == "Found relevant IDs but could not retrieve content."
NotConfigured == "The knowledge base search service is not properly configured."
SearchFailed == "Knowledge base search failed."
Unavailable == "Knowledge base search is temporarily unavailable."
Context == "Source: ... Content: ..."

InvalidArgument == "400 Request contains an invalid argument"
Exceptions == {InvalidArgument, "ValueError", "RuntimeError", "OSError"}

NoResult == [kind |-> "none", message |-> "", docs |-> <<>>]
Return(message, docs) == [kind |-> "return", message |-> message, docs |-> docs]
Raise(e) == [kind |-> "raise", message |-> e, docs |-> <<>>]

\* the tool as proxy_agent.py builds it when the environment names nothing
DefaultTool(kb_id) ==
    [kb_id |-> kb_id,
     index_endpoint_name |->
         Replace(kb_id, "_", "-") \o <<"-", "e", "n", "d", "p", "o", "i", "n", "t">>,
     deployed_index_id |-> <<"d", "e", "p", "l", "o", "y", "e", "d", "_">> \o kb_id]

\* the tool when RAG_ENDPOINT_NAME and RAG_DEPLOYED_INDEX_ID name what the setup made
ConfiguredTool(kb_id) ==
    [kb_id |-> kb_id,
     index_endpoint_name |-> EndpointDisplayName(kb_id),
     deployed_index_id |-> DeployedIndexId(kb_id)]

Tools == {DefaultTool(k) : k \in KbIds} \cup {ConfiguredTool(k) : k \in KbIds}

NoTool == [kb_id |-> NoKb, index_endpoint_name |-> <<>>, deployed_index_id |-> <<>>]

\* the except clause of _run
RunReraise(e) == Raise(e)

RunCatch(e) == Return(Unavailable, <<>>)

AsyncRunReraise(e) == Raise(e)

\* the except clause of _async_run
AsyncRunCatch(e) ==
    IF e = InvalidArgument THEN Return(NotConfigured, <<>>) ELSE Return(SearchFailed, <<>>)

\* the datapoints a deployed index id of an endpoint serves
Served(endpoint, deployed_index_id) ==
    UNION {indexes[d.index].datapoints :
              d \in {x \in endpoint.deployed_indexes : x.id = deployed_index_id}}

\* lists of at most n distinct elements of S
RECURSIVE DistinctSeqs(_, _)
DistinctSeqs(S, n) ==
    IF n = 0 \/ S = {} THEN {<<>>}
    ELSE {<<>>} \cup UNION {{<<x>> \o r : r \in DistinctSeqs(S \ {x}, n - 1)} : x \in S}

RECURSIVE FetchedAnyKb(_, _, _)
FetchedAnyKb(kb_id, chunk_ids, failing) ==
    IF chunk_ids = <<>> THEN <<>>
    ELSE (IF (\E c \in chunk_docs : c.id = Head(chunk_ids)) /\ Head(chunk_ids) \notin failing
          THEN <<Head(chunk_ids)>> ELSE <<>>)
         \o FetchedAnyKb(kb_id, Tail(chunk_ids), failing)

\* _fetch_chunks_sync: the documents of chunk_ids that exist and whose get did not raise
RECURSIVE FetchedDocs(_, _, _)
FetchedDocs(kb_id, chunk_ids, failing) ==
    IF chunk_ids = <<>> THEN <<>>
    ELSE (IF [kb_id |-> kb_id, id |-> Head(chunk_ids)] \in chunk_docs
             /\ Head(chunk_ids) \notin failing
          THEN <<Head(chunk_ids)>> ELSE <<>>)
         \o FetchedDocs(kb_id, Tail(chunk_ids), failing)

\* _async_run after fetch_chunks_by_ids
Answer(docs) ==
    IF docs = <<>> THEN Return(CouldNotRetrieve, <<>>) ELSE Return(Context, docs)

QueryIdle ==
    /\ qpc = "idle"
    /\ tool = NoTool
    /\ in_loop = FALSE
    /\ q_failure = "none"
    /\ neighbor_results = <<>>
    /\ async_result = NoResult
    /\ tool_result = NoResult
    /\ endpoint_cache = {}
    /\ queries = 0

\* the run's first chunk ids
WorldIds(n) == {ChunkId(Url(SeedNetloc, 0), i) : i \in 0..(n - 1)}

\* what the runs for a knowledge base leave behind: nothing, an index, an
\* endpoint, a deployment, d upserted datapoints, c committed chunk documents;
\* the index is the n-th index and the endpoint the n-th endpoint
IndexesLeft(kb, stage, d) ==
    IF stage >= 1
    THEN <<[display_name |-> IndexDisplayName(kb), datapoints |-> WorldIds(d)]>>
    ELSE <<>>

EndpointsLeft(kb, stage, n) ==
    IF stage >= 2
    THEN <<[display_name |-> EndpointDisplayName(kb),
            deployed_indexes |-> IF stage >= 3
                                 THEN {[id |-> DeployedIndexId(kb), index |-> n]}
                                 ELSE {}]>>
    ELSE <<>>

ChunksLeft(kb, c) == {[kb_id |-> kb, id |-> i] : i \in WorldIds(c)}

\* the world of kb, beside a finished run for the same site under the kb_id
\* other (its chunk ids are the same: md5 of the url and the position) or
\* with no such run
World(kb, stage, d, c, other) ==
    /\ indexes = (IF other = NoKb THEN <<>>
                  ELSE IndexesLeft(other, 3, MaxPageChunks))
                 \o IndexesLeft(kb, stage, d)
    /\ endpoints = (IF other = NoKb THEN <<>> ELSE EndpointsLeft(other, 3, 1))
                   \o EndpointsLeft(kb, stage, IF other = NoKb THEN 1 ELSE 2)
    /\ chunk_docs = (IF other = NoKb THEN {} ELSE ChunksLeft(other, MaxPageChunks))
                    \cup ChunksLeft(kb, c)

QueryInit ==
    /\ CrawlIdle
    /\ ChunkIdle
    /\ QueryIdle
    /\ DeleteIdle
    /\ ContextIdle
    /\ TripIdle
    /\ FetchIdle
    /\ setup_kb = NoKb /\ my_index = 0 /\ my_endpoint = 0 /\ created = {}
    /\ spc = "idle" /\ setup_log = <<>>
    /\ kb_docs = [k \in KbIds |-> NoDoc]
    /\ run_kb = NoKb /\ text_chunks = <<>> /\ upserted = 0 /\ upsert_calls = <<>>
    /\ ppc = "idle"
    /\ run_error = "" /\ now = 1 /\ failed_writes = {}
    /\ queue = <<>> /\ run_writes = <<>>
    /\ status_log = [k \in KbIds |-> <<>>]
    /\ \E kb \in KbIds, stage \in 0..3, d \in 0..MaxPageChunks, c \in 0..MaxPageChunks,
          other \in KbIds \cup {NoKb} :
          /\ stage < 3 => d = 0
          /\ c <= d
          /\ other # kb
          /\ World(kb, stage, d, c, other)

notQuery == <<crawlVars, chunkVars, provVars, pipeVars, deleteVars, contextVars, fetchVars, tripVars>>

Failed(what, result) ==
    /\ q_failure' = what
    /\ tool_result' = result
    /\ qpc' = "returned"

\* _run is called, inside a running event loop or not
Run(t, loop) ==
    /\ qpc = "idle"
    /\ queries < MaxQueries
    /\ queries' = queries + 1
    /\ tool' = t
    /\ in_loop' = loop
    /\ q_failure' = "none"
    /\ neighbor_results' = <<>>
    /\ async_result' = NoResult
    /\ tool_result' = NoResult
    /\ qpc' = IF loop THEN "executor" ELSE "new_loop"
    /\ UNCHANGED <<endpoint_cache, notQuery>>

\* get_running_loop() found a loop: _run_in_new_loop starts in an executor thread
ExecutorRuns ==
    /\ qpc = "executor"
    /\ qpc' = "embed_query"
    /\ UNCHANGED <<tool, in_loop, q_failure, neighbor_results, async_result,
                   tool_result, endpoint_cache, queries, notQuery>>

\* the executor raises RuntimeError: the except RuntimeError branch takes over
ExecutorRaisesRuntimeError ==
    /\ qpc = "executor"
    /\ qpc' = "new_loop"
    /\ q_failure' = "loop"
    /\ UNCHANGED <<tool, in_loop, neighbor_results, async_result, tool_result,
                   endpoint_cache, queries, notQuery>>

\* the executor raises another exception
ExecutorRaises ==
    /\ qpc = "executor"
    /\ Failed("loop", RunCatch("OSError"))
    /\ UNCHANGED <<tool, in_loop, neighbor_results, async_result, endpoint_cache,
                   queries, notQuery>>

\* no loop is running: a new loop runs _async_run
NewLoopRuns ==
    /\ qpc = "new_loop"
    /\ ~in_loop
    /\ qpc' = "embed_query"
    /\ UNCHANGED <<tool, in_loop, q_failure, neighbor_results, async_result,
                   tool_result, endpoint_cache, queries, notQuery>>

\* new_event_loop raises, or run_until_complete does because a loop is running
NewLoopRaises ==
    /\ qpc = "new_loop"
    /\ \E e \in {"RuntimeError", "OSError"} :
          /\ in_loop => e = "RuntimeError"
          /\ Failed("loop", RunCatch(e))
    /\ UNCHANGED <<tool, in_loop, neighbor_results, async_result, endpoint_cache,
                   queries, notQuery>>

\* _async_run returns s: the loop is closed and _run returns s, or close() raises
AsyncReturns(s) ==
    /\ async_result' = s
    /\ qpc' = "close"

\* an exception e reaches the except clause of _async_run
AsyncFailed(what, e) ==
    /\ q_failure' = what
    /\ AsyncReturns(AsyncRunCatch(e))

\* query: aembed_query returns
EmbedQueryReturns ==
    /\ qpc = "embed_query"
    /\ qpc' = "endpoint"
    /\ UNCHANGED <<tool, in_loop, q_failure, neighbor_results, async_result,
                   tool_result, endpoint_cache, queries, notQuery>>

\* query: aembed_query raises
EmbedQueryRaises ==
    /\ qpc = "embed_query"
    /\ \E e \in Exceptions : AsyncFailed("embedding", e)
    /\ UNCHANGED <<tool, in_loop, neighbor_results, tool_result, endpoint_cache,
                   queries, notQuery>>

\* _get_index_endpoint: the client is in the cache
GetIndexEndpointCached ==
    /\ qpc = "endpoint"
    /\ tool.index_endpoint_name \in endpoint_cache
    /\ qpc' = "search"
    /\ UNCHANGED <<tool, in_loop, q_failure, neighbor_results, async_result,
                   tool_result, endpoint_cache, queries, notQuery>>

\* _get_index_endpoint: the endpoint is listed, and cached
GetIndexEndpointListed ==
    /\ qpc = "endpoint"
    /\ tool.index_endpoint_name \notin endpoint_cache
    /\ Listed(endpoints, tool.index_endpoint_name) # {}
    /\ endpoint_cache' = endpoint_cache \cup {tool.index_endpoint_name}
    /\ qpc' = "search"
    /\ UNCHANGED <<tool, in_loop, q_failure, neighbor_results, async_result,
                   tool_result, queries, notQuery>>

\* _get_index_endpoint: no endpoint of that display name: ValueError, re-raised
GetIndexEndpointNotFound ==
    /\ qpc = "endpoint"
    /\ tool.index_endpoint_name \notin endpoint_cache
    /\ Listed(endpoints, tool.index_endpoint_name) = {}
    /\ AsyncFailed("endpoint", "ValueError")
    /\ UNCHANGED <<tool, in_loop, neighbor_results, tool_result, endpoint_cache,
                   queries, notQuery>>

\* _get_index_endpoint: list or the client's construction raises, re-raised
GetIndexEndpointRaises ==
    /\ qpc = "endpoint"
    /\ tool.index_endpoint_name \notin endpoint_cache
    /\ \E e \in Exceptions : AsyncFailed("endpoint", e)
    /\ UNCHANGED <<tool, in_loop, neighbor_results, tool_result, endpoint_cache,
                   queries, notQuery>>

\* query: find_neighbors answers with at most top_k neighbours
FindNeighbors ==
    /\ qpc = "search"
    /\ LET e == endpoints[First(Listed(endpoints, tool.index_endpoint_name))] IN
          /\ IsDeployed(e, tool.deployed_index_id)
          /\ \E found \in DistinctSeqs(Served(e, tool.deployed_index_id), TopK) :
                /\ neighbor_results' = found
                /\ IF found = <<>>
                   THEN AsyncReturns(Return(NoRelevantContext, <<>>))
                   ELSE qpc' = "fetch" /\ UNCHANGED async_result
    /\ UNCHANGED <<tool, in_loop, q_failure, tool_result, endpoint_cache, queries,
                   notQuery>>

\* query: find_neighbors raises, as it must when the deployed index id is unknown
FindNeighborsRaises ==
    /\ qpc = "search"
    /\ \E e \in Exceptions : AsyncFailed("search", e)
    /\ UNCHANGED <<tool, in_loop, neighbor_results, tool_result, endpoint_cache,
                   queries, notQuery>>

\* fetch_chunks_by_ids: the gets of the ids in failing raise and are skipped
FetchChunks ==
    /\ qpc = "fetch"
    /\ \E failing \in SUBSET Range(neighbor_results) :
          /\ q_failure' = IF failing = {} THEN q_failure ELSE "fetch"
          /\ AsyncReturns(Answer(FetchedDocs(tool.kb_id, neighbor_results, failing)))
    /\ UNCHANGED <<tool, in_loop, neighbor_results, tool_result, endpoint_cache,
                   queries, notQuery>>

\* _fetch_chunks_sync: the Firestore client cannot be had: []
FetchChunksNoClient ==
    /\ qpc = "fetch"
    /\ q_failure' = "fetch"
    /\ AsyncReturns(Answer(<<>>))
    /\ UNCHANGED <<tool, in_loop, neighbor_results, tool_result, endpoint_cache,
                   queries, notQuery>>

\* fetch_chunks_by_ids: asyncio.to_thread raises
FetchChunksRaises ==
    /\ qpc = "fetch"
    /\ \E e \in Exceptions : AsyncFailed("fetch", e)
    /\ UNCHANGED <<tool, in_loop, neighbor_results, tool_result, endpoint_cache,
                   queries, notQuery>>

\* finally: loop.close(), and _run returns what _async_run returned
LoopCloses ==
    /\ qpc = "close"
    /\ tool_result' = async_result
    /\ qpc' = "returned"
    /\ UNCHANGED <<tool, in_loop, q_failure, neighbor_results, async_result,
                   endpoint_cache, queries, notQuery>>

\* finally: loop.close() raises
LoopCloseRaises ==
    /\ qpc = "close"
    /\ Failed("loop", RunCatch("RuntimeError"))
    /\ UNCHANGED <<tool, in_loop, neighbor_results, async_result, endpoint_cache,
                   queries, notQuery>>

\* the agent has the tool's answer
AgentReads ==
    /\ qpc = "returned"
    /\ qpc' = "idle"
    /\ UNCHANGED <<tool, in_loop, q_failure, neighbor_results, async_result,
                   tool_result, endpoint_cache, queries, notQuery>>

QueryNext ==
    \/ \E t \in Tools, loop \in BOOLEAN : Run(t, loop)
    \/ ExecutorRuns
    \/ ExecutorRaisesRuntimeError
    \/ ExecutorRaises
    \/ NewLoopRuns
    \/ NewLoopRaises
    \/ EmbedQueryReturns
    \/ EmbedQueryRaises
    \/ GetIndexEndpointCached
    \/ GetIndexEndpointListed
    \/ GetIndexEndpointNotFound
    \/ GetIndexEndpointRaises
    \/ FindNeighbors
    \/ FindNeighborsRaises
    \/ FetchChunks
    \/ FetchChunksNoClient
    \/ FetchChunksRaises
    \/ LoopCloses
    \/ LoopCloseRaises
    \/ AgentReads

(***************************************************************************)
(* _async_run, lines 75-79: the context string of the chunk documents      *)
(* fetch_chunks_by_ids returned.                                           *)
(***************************************************************************)
MaxContentLen == 3
ContextBudget == 40

SourceLabel == <<"S", "o", "u", "r", "c", "e", ":", " ">>
ContentLabel == <<Newline, "C", "o", "n", "t", "e", "n", "t", ":", " ">>
Separator == <<Newline, Newline, "-", "-", "-", Newline, Newline>>

\* the source_url and content fields of a chunk document, as
\* _create_vector_index writes them
SourceUrls == {<<"u">>, <<"u", "/", "p">>}
Contents == UNION {[1..n -> {"a"}] : n \in 1..MaxContentLen}
FoundDocs == UNION {[1..n -> [source_url : SourceUrls, content : Contents]] : n \in 1..TopK}

\* f"Source: {doc.get('source_url', 'N/A')}\nContent: {doc.get('content', '')}"
ContextPart(doc) == SourceLabel \o doc.source_url \o ContentLabel \o doc.content

\* "\n\n---\n\n".join(context_parts)
RECURSIVE Join(_, _)
Join(sep, parts) ==
    IF parts = <<>> THEN <<>>
    ELSE IF Len(parts) = 1 THEN parts[1]
    ELSE parts[1] \o sep \o Join(sep, Tail(parts))

TruncatedContext(docs) ==
    LET whole == Join(Separator, [k \in 1..Len(docs) |-> ContextPart(docs[k])])
    IN SubSeq(whole, 1, Min(ContextBudget, Len(whole)))

\* lines 75-79
ContextString(docs) == Join(Separator, [k \in 1..Len(docs) |-> ContextPart(docs[k])])

ContextInit ==
    /\ chunk_docs_found \in FoundDocs
    /\ context = <<>>
    /\ xpc = "assemble"

\* the documents are not empty: the context is built and returned
AssembleContext ==
    /\ xpc = "assemble"
    /\ context' = ContextString(chunk_docs_found)
    /\ xpc' = "done"
    /\ UNCHANGED <<chunk_docs_found, crawlVars, chunkVars, provVars, pipeVars,
                   queryVars, deleteVars, tripVars, fetchVars>>

ContextNext == AssembleContext

(***************************************************************************)
(* _crawl_single_page under its decorator                                  *)
(* @retry(stop=stop_after_attempt(3), wait=wait_fixed(2)): tenacity calls  *)
(* the body again only when a call of it raises.                           *)
(***************************************************************************)
StopAfterAttempt == 3

\* what a GET of the url can meet: a page, a status other than 200, a
\* content type other than text/html, a page without text, an exception of
\* the request, a timeout
Answers == {"page", "status", "type", "empty", "raises", "timeout"}
Transient == {"raises", "timeout"}

FetchInit ==
    /\ responses \in [1..StopAfterAttempt -> Answers]
    /\ attempt = 0
    /\ page_result = Pending
    /\ fpc = "call"

\* tenacity calls the body; line 182: the GET is issued
CallBody ==
    /\ fpc = "call"
    /\ attempt < StopAfterAttempt
    /\ attempt' = attempt + 1
    /\ fpc' = "get"
    /\ UNCHANGED <<responses, page_result, crawlVars, chunkVars, provVars, pipeVars,
                   queryVars, deleteVars, contextVars, tripVars>>

\* lines 190-224: the body returns the page and its links, and tenacity
\* returns what the body returned
BodyReturnsPage ==
    /\ fpc = "get"
    /\ responses[attempt] = "page"
    /\ page_result' = PageResult(base_url, <<>>)
    /\ fpc' = "done"
    /\ UNCHANGED <<responses, attempt, crawlVars, chunkVars, provVars, pipeVars,
                   queryVars, deleteVars, contextVars, tripVars>>

\* lines 183-188, 198-199: the body returns None
BodyReturnsNone ==
    /\ fpc = "get"
    /\ responses[attempt] \in {"status", "type", "empty"}
    /\ page_result' = None
    /\ fpc' = "done"
    /\ UNCHANGED <<responses, attempt, crawlVars, chunkVars, provVars, pipeVars,
                   queryVars, deleteVars, contextVars, tripVars>>

\* lines 226-228: the request raises inside the try; the except clause of
\* the body logs it and returns None, so no exception reaches tenacity
BodyCatches ==
    /\ fpc = "get"
    /\ responses[attempt] \in Transient
    /\ page_result' = None
    /\ fpc' = "done"
    /\ UNCHANGED <<responses, attempt, crawlVars, chunkVars, provVars, pipeVars,
                   queryVars, deleteVars, contextVars, tripVars>>

FetchNext ==
    \/ CallBody
    \/ BodyReturnsPage
    \/ BodyReturnsNone
    \/ BodyCatches

(***************************************************************************)
(* One chunk id from ingestion to retrieval: _create_vector_index stores   *)
(* the vectors and the documents, query and fetch_chunks_by_ids read them. *)
(* The embedding model is a function of the text; find_neighbors is exact. *)
(***************************************************************************)
MaxStubChunks == 4
MaxVector == 2

StubTexts == {"blue shoes", "red hats", "green socks"}
StubModels == [StubTexts -> 0..MaxVector]

\* the distance of two vectors
Distance(a, b) == IF a < b THEN b - a ELSE a - b

\* lines 77-88 for one page: the i-th chunk gets the id md5(url)_i
MetasOf(kb_id, url, contents) ==
    [k \in 1..Len(contents) |->
        [id |-> ChunkId(url, k - 1), content |-> contents[k], source_url |-> url,
         kb_id |-> kb_id]]

\* aembed_documents: one vector per text, in the order of the texts
EmbedDocuments(model, texts) == [k \in 1..Len(texts) |-> model[texts[k]]]

DatapointsRenumbered(metas, embeddings) ==
    [k \in 1..Len(metas) |->
        [datapoint_id |-> ChunkId(metas[k].source_url, k),
         feature_vector |-> embeddings[k]]]

\* lines 98-103
DatapointsToUpsert(metas, embeddings) ==
    [k \in 1..Len(metas) |->
        [datapoint_id |-> metas[k].id, feature_vector |-> embeddings[k]]]

\* find_neighbors, exact: the lists of the k nearest datapoints, nearest
\* first
Nearest(dps, vector, k) ==
    {nb \in [1..Min(k, Cardinality(dps)) -> dps] :
        /\ \A i, j \in DOMAIN nb : i < j =>
              /\ nb[i] # nb[j]
              /\ Distance(vector, nb[i].feature_vector)
                    <= Distance(vector, nb[j].feature_vector)
        /\ \A d \in dps : (\A i \in DOMAIN nb : nb[i] # d) =>
              \A i \in DOMAIN nb : Distance(vector, nb[i].feature_vector)
                                      <= Distance(vector, d.feature_vector)}

\* results.append((neighbor.id, neighbor.distance))
QueryResults(nb, vector) ==
    [i \in DOMAIN nb |-> [id |-> nb[i].datapoint_id,
                           distance |-> Distance(vector, nb[i].feature_vector)]]

\* the documents of the ids that exist, in the order of the ids
RECURSIVE DocsOfIds(_, _)
DocsOfIds(docs, ids) ==
    IF ids = <<>> THEN <<>>
    ELSE LET here == {d \in docs : d.id = Head(ids)}
         IN (IF here = {} THEN <<>> ELSE <<CHOOSE d \in here : TRUE>>)
            \o DocsOfIds(docs, Tail(ids))

\* the knowledge base the chunks are ingested under
TripKb == GenerateKbId(CHOOSE d \in Domains : TRUE, Timestamp(1))

TripInit ==
    /\ embedding_model \in StubModels
    /\ \E contents \in UNION {[1..n -> StubTexts] : n \in 1..MaxStubChunks} :
          chunk_metas = MetasOf(TripKb, Url(SeedNetloc, 0), contents)
    /\ index_datapoints = {}
    /\ stored_chunks = {}
    /\ query_text \in StubTexts
    /\ query_results = <<>>
    /\ resolved = <<>>
    /\ rpc = "upsert"

\* lines 95-110: the chunks are embedded and their datapoints upserted
UpsertChunks ==
    /\ rpc = "upsert"
    /\ LET all_chunks_content == [k \in 1..Len(chunk_metas) |-> chunk_metas[k].content]
           embeddings == EmbedDocuments(embedding_model, all_chunks_content)
           to_upsert == DatapointsToUpsert(chunk_metas, embeddings)
       IN index_datapoints' = {to_upsert[k] : k \in 1..Len(to_upsert)}
    /\ rpc' = "store"
    /\ UNCHANGED <<embedding_model, chunk_metas, stored_chunks, query_text,
                   query_results, resolved, crawlVars, chunkVars, provVars,
                   pipeVars, queryVars, deleteVars, contextVars, fetchVars>>

\* lines 113-118: the chunk documents are committed, each under its id
StoreMetas ==
    /\ rpc = "store"
    /\ stored_chunks' = {chunk_metas[k] : k \in 1..Len(chunk_metas)}
    /\ rpc' = "query"
    /\ UNCHANGED <<embedding_model, chunk_metas, index_datapoints, query_text,
                   query_results, resolved, crawlVars, chunkVars, provVars,
                   pipeVars, queryVars, deleteVars, contextVars, fetchVars>>

\* RAGService.query: the text is embedded and the neighbours are returned
QueryNeighbors ==
    /\ rpc = "query"
    /\ \E nb \in Nearest(index_datapoints, embedding_model[query_text], TopK) :
          query_results' = QueryResults(nb, embedding_model[query_text])
    /\ rpc' = "fetch"
    /\ UNCHANGED <<embedding_model, chunk_metas, index_datapoints, stored_chunks,
                   query_text, resolved, crawlVars, chunkVars, provVars, pipeVars,
                   queryVars, deleteVars, contextVars, fetchVars>>

\* _async_run, lines 68-70: the ids of the results are fetched
FetchFound ==
    /\ rpc = "fetch"
    /\ resolved' = DocsOfIds(stored_chunks,
                             [i \in DOMAIN query_results |-> query_results[i].id])
    /\ rpc' = "resolved"
    /\ UNCHANGED <<embedding_model, chunk_metas, index_datapoints, stored_chunks,
                   query_text, query_results, crawlVars, chunkVars, provVars,
                   pipeVars, queryVars, deleteVars, contextVars, fetchVars>>

TripNext ==
    \/ UpsertChunks
    \/ StoreMetas
    \/ QueryNeighbors
    \/ FetchFound

(***************************************************************************)
(* Specifications.                                                         *)
(***************************************************************************)
Init == CrawlInit /\ ChunkIdle /\ ProvInit /\ PipeInit /\ QueryIdle /\ DeleteIdle /\ ContextIdle /\ TripIdle /\ FetchIdle

Next == CrawlNext

Spec == Init /\ [][Next]_vars

InitChunk == CrawlIdle /\ ChunkInit /\ ProvInit /\ PipeInit /\ QueryIdle /\ DeleteIdle /\ ContextIdle /\ TripIdle /\ FetchIdle

SpecChunk == InitChunk /\ [][ChunkNext]_vars

InitProvision == CrawlIdle /\ ChunkIdle /\ ProvInit /\ PipeInit /\ QueryIdle /\ DeleteIdle /\ ContextIdle /\ TripIdle /\ FetchIdle

SpecProvision == InitProvision /\ [][ProvNext]_vars

InitPipeline == CrawlIdle /\ ChunkIdle /\ ProvInit /\ PipeInit /\ QueryIdle /\ DeleteIdle /\ ContextIdle /\ TripIdle /\ FetchIdle

SpecPipeline == InitPipeline /\ [][PipeNext]_vars

SpecStore == InitPipeline /\ [][StoreNext]_vars

\* a submission made while the clock of the model can still reach the next
\* second (the crawl of its run sleeps a second)
SubmitInTime(domain) == now < MaxClock /\ Submit(domain)

\* the steps of the run in progress: every awaited call returns or raises
RunStep ==
    \/ StartRun
    \/ UpdateKbStatus
    \/ UpdateKbStatusFails
    \/ CrawlReturns
    \/ CrawlReturnsNothing
    \/ UpdateKbPages
    \/ ChunkPages
    \/ EmbedReturns
    \/ EmbedRaises
    \/ ppc = "provision" /\ ReuseIndex
    \/ ppc = "provision" /\ CreateIndex
    \/ ppc = "provision" /\ ReuseEndpoint
    \/ ppc = "provision" /\ CreateEndpoint
    \/ ppc = "provision" /\ SkipDeploy
    \/ ppc = "provision" /\ DeployIndex
    \/ ppc = "provision" /\ \E e \in {AlreadyExists, OtherError} : SetupRaises(e)
    \/ ProvisionReturns
    \/ ProvisionRaises
    \/ UpsertOneBatch
    \/ UpsertRaises
    \/ StoreChunks
    \/ StoreChunksRaises

FairPipeNext ==
    \/ Tick
    \/ \E d \in Domains : SubmitInTime(d)
    \/ RunStep

\* pipeline runs in a process that is not killed, with time passing
SpecPipelineFair ==
    InitPipeline /\ [][FairPipeNext]_vars /\ WF_vars(RunStep) /\ WF_vars(Tick)

\* a crawl session whose event loop keeps running and whose fetches return
SpecCrawlFair == Init /\ [][Next]_vars /\ WF_vars(Next)

InitContext ==
    CrawlIdle /\ ChunkIdle /\ ProvInit /\ PipeInit /\ QueryIdle /\ DeleteIdle /\ ContextInit /\ TripIdle /\ FetchIdle

SpecContext == InitContext /\ [][ContextNext]_vars

InitTrip ==
    /\ CrawlIdle /\ ChunkIdle /\ ProvInit /\ PipeInit /\ QueryIdle /\ DeleteIdle
    /\ ContextIdle /\ TripInit /\ FetchIdle

SpecTrip == InitTrip /\ [][TripNext]_vars

InitFetch ==
    /\ CrawlIdle /\ ChunkIdle /\ ProvInit /\ PipeInit /\ QueryIdle /\ DeleteIdle
    /\ ContextIdle /\ TripIdle /\ FetchInit

SpecFetch == InitFetch /\ [][FetchNext]_vars

SpecQuery == QueryInit /\ [][QueryNext]_vars

(***************************************************************************)
(* The crawl session.                                                      *)
(***************************************************************************)
PageUrls == {pages_data[i].url : i \in 1..Len(pages_data)}

\* C1: a crawl session returns at most max_pages_per_site page records
C1_Budget == cpc = "done" => Len(pages_data) <= max_pages_per_site

\* C2: no url is fetched twice and no two page records carry the same url
C2_NoRevisit ==
    /\ \A u \in AllUrls : fetches[u] <= 1
    /\ \A i, j \in 1..Len(pages_data) : i # j => pages_data[i].url # pages_data[j].url

\* C3: the frontier, the batch and the page records stay on the seed's netloc,
\* and no url of another netloc is fetched
C3_DomainScope ==
    /\ \A u \in Range(urls_to_visit) \cup Range(batch_urls) \cup Range(tasks) :
          Netloc(u) = base_domain
    /\ \A u \in PageUrls : Netloc(u) = base_domain
    /\ \A u \in AllUrls : Netloc(u) # base_domain => fetches[u] = 0

\* a page carrying a link to another netloc was crawled and its links merged
C3_Witness ==
    /\ cpc = "done"
    /\ \E u \in PageUrls : \E k \in 1..Len(web[u].hrefs) :
          Netloc(web[u].hrefs[k]) # base_domain
    /\ Len(pages_data) >= 2

(***************************************************************************)
(* The chunker.                                                            *)
(***************************************************************************)
\* C5: every loop iteration moves the window start strictly forward
C5_Progress == [][kpc = "loop" /\ kpc' = "loop" => start' > start]_vars

\* C6: returned chunks are at most max_chunk_size long, the list is not
\* empty, and a text that fits is returned whole
C6_ChunkBound ==
    kpc = "done" =>
        /\ \A k \in 1..Len(chunks) : Len(chunks[k]) <= max_chunk_size
        /\ chunks # <<>>
        /\ Len(text) <= max_chunk_size => chunks = <<text>>

\* a text cut into several chunks, one of them at a sentence boundary
C6_Witness ==
    /\ kpc = "done"
    /\ Len(chunks) >= 3
    /\ \E k \in 1..(Len(chunks) - 1) : Len(chunks[k]) < max_chunk_size

\* the characters (0-based positions) a chunk holds
Covered(w) == {i \in 0..(Len(text) - 1) : SliceIndex(text, w.start) <= i /\ i < SliceIndex(text, w.end)}

\* C7: no character is dropped: the first chunk starts at 0, the last ends
\* at len(text), each chunk starts at or before the end of the one before,
\* and every position lies in some chunk
C7_NoCharacterDropped ==
    kpc = "done" =>
        /\ windows[1].start = 0
        /\ windows[Len(windows)].end = Len(text)
        /\ \A k \in 2..Len(windows) : windows[k].start <= windows[k - 1].end
        /\ \A k \in 1..Len(windows) : chunks[k] = Slice(text, windows[k].start, windows[k].end)
        /\ UNION {Covered(windows[k]) : k \in 1..Len(windows)} = 0..(Len(text) - 1)

C7_Witness ==
    /\ kpc = "done"
    /\ Len(chunks) >= 3
    /\ overlap >= 1
    /\ \E k \in 1..(Len(chunks) - 1) : Len(chunks[k]) < max_chunk_size

(***************************************************************************)
(* Provisioning.                                                           *)
(***************************************************************************)
OkCalls(kb_id) == {i \in 1..Len(setup_log) : setup_log[i].ok /\ setup_log[i].kb_id = kb_id}

IndexesOf(kb_id) ==
    {i \in 1..Len(indexes) : indexes[i].display_name = IndexDisplayName(kb_id)}
EndpointsOf(kb_id) ==
    {e \in 1..Len(endpoints) : endpoints[e].display_name = EndpointDisplayName(kb_id)}
DeploymentsOf(kb_id) ==
    {<<e, d>> \in (1..Len(endpoints)) \X UNION {endpoints[e].deployed_indexes : e \in 1..Len(endpoints)} :
        d \in endpoints[e].deployed_indexes /\ d.id = DeployedIndexId(kb_id)}

\* C8: after a call for kb_id has returned, every later call for it creates
\* nothing, issues no deploy and returns the same, and the kb_id has one
\* index, one endpoint and one deployment
C8_IdempotentProvisioning ==
    \A kb_id \in KbIds :
        /\ \A i, j \in OkCalls(kb_id) :
              i < j => /\ setup_log[j].created = {}
                       /\ ~setup_log[j].deploy_issued
                       /\ setup_log[j].ret = setup_log[i].ret
        /\ OkCalls(kb_id) # {} =>
              /\ Cardinality(IndexesOf(kb_id)) = 1
              /\ Cardinality(EndpointsOf(kb_id)) = 1
              /\ Cardinality(DeploymentsOf(kb_id)) = 1

\* setup_infrastructure_for_kb has returned twice for one kb_id
C8_Witness == \E kb_id \in KbIds : Cardinality(OkCalls(kb_id)) >= 2

(***************************************************************************)
(* The pipeline run and the state store.                                   *)
(***************************************************************************)
Forward == <<QUEUED, CRAWLING, INDEXING, ACTIVE>>

IsPrefix(a, b) == Len(a) <= Len(b) /\ a = SubSeq(b, 1, Len(a))

\* C4: the status values an entry has held are a prefix of QUEUED, CRAWLING,
\* INDEXING, ACTIVE, or such a prefix followed by FAILED
C4_StatusSequence ==
    \A k \in KbIds :
        \/ IsPrefix(status_log[k], Forward)
        \/ /\ status_log[k] # <<>>
           /\ status_log[k][Len(status_log[k])] = FAILED
           /\ IsPrefix(SubSeq(status_log[k], 1, Len(status_log[k]) - 1), Forward)

FatalErrors == {"embedding error", OtherError, AlreadyExists, "upsert error"}

\* the run stopped at the error, wrote no ACTIVE, and what it upserted stays
StoppedAtError ==
    /\ ppc \in {"set_failed", "idle"}
    /\ \A k \in 1..Len(run_writes) : run_writes[k].status # ACTIVE
    /\ upserted > 0 =>
          Ids(SubSeq(text_chunks, 1, upserted)) \subseteq indexes[my_index].datapoints

\* the run's last status update set FAILED with the message of the error
MarkedFailed ==
    /\ run_writes # <<>>
    /\ run_writes[Len(run_writes)] = [status |-> FAILED, error_message |-> run_error]

\* the statement of C9 as it stands: after an embedding, provisioning or
\* upsert error the run stops, sets the entry to FAILED with the error's
\* message and never to ACTIVE, and the upserted datapoints stay
C9_AlwaysMarkedFailed ==
    run_error \in FatalErrors =>
        /\ StoppedAtError
        /\ ppc = "idle" => MarkedFailed

\* C9: after an embedding, provisioning or upsert error the run stops, no
\* ACTIVE is written, the upserted datapoints stay, and the run sets the
\* entry to FAILED with the error's message unless the write of FAILED itself
\* raised, in which case the run wrote no FAILED at all
C9_MarkedFailedUnlessWriteFails ==
    run_error \in FatalErrors =>
        /\ StoppedAtError
        /\ ppc = "idle" =>
              IF FAILED \in failed_writes
              THEN \A k \in 1..Len(run_writes) : run_writes[k].status # FAILED
              ELSE MarkedFailed

\* the second upsert batch raised after the first was stored, and the run
\* ended with the entry FAILED
C9_Witness ==
    /\ run_error = "upsert error"
    /\ upserted > 0
    /\ ppc = "idle"
    /\ MarkedFailed
    /\ kb_docs[run_kb].status = FAILED
    /\ kb_docs[run_kb].error_message = run_error

(***************************************************************************)
(* The search tool.                                                        *)
(***************************************************************************)
Messages == {NoRelevantContext, CouldNotRetrieve, NotConfigured, SearchFailed,
             Unavailable, Context}

\* C10: _run never raises: whatever fails, it returns one of its strings,
\* and a failed embedding, endpoint lookup or search returns no content
C10_NeverPropagates ==
    /\ tool_result.kind # "raise"
    /\ qpc = "returned" =>
          /\ tool_result.kind = "return"
          /\ tool_result.message \in Messages
          /\ q_failure \in {"embedding", "endpoint", "search"} =>
                /\ tool_result.message \in {NotConfigured, SearchFailed}
                /\ tool_result.docs = <<>>
          /\ tool_result.message # Context => tool_result.docs = <<>>

\* find_neighbors raised and _run returned the degraded message
C10_Witness ==
    /\ qpc = "returned"
    /\ q_failure = "search"
    /\ tool_result = Return(NotConfigured, <<>>)

\* the tool's kb has no endpoint of its name, or the endpoint does not have
\* the tool's deployed index id
NotServable ==
    \/ Listed(endpoints, tool.index_endpoint_name) = {}
    \/ ~IsDeployed(endpoints[First(Listed(endpoints, tool.index_endpoint_name))],
                   tool.deployed_index_id)

\* the statement of C11 as it stands: a query of a kb whose endpoint is not
\* found or has no deployed index comes back as an empty result set, as a
\* search with no neighbour does, and nothing was raised on the way
C11_EmptyResultSet ==
    (qpc = "returned" /\ NotServable /\ q_failure \notin {"loop", "embedding"}) =>
        /\ q_failure = "none"
        /\ tool_result = Return(NoRelevantContext, <<>>)

\* C11: a query of a kb whose endpoint is not found or has no deployed index
\* raises out of RAGService.query; _async_run catches it, so the tool raises
\* nothing and returns a failure message with no chunk content
C11_FailureMessageNoContent ==
    /\ async_result.kind # "raise"
    /\ (qpc = "returned" /\ NotServable) =>
          /\ tool_result.kind = "return"
          /\ tool_result.docs = <<>>
          /\ tool_result.message \in {SearchFailed, NotConfigured, Unavailable}
          /\ q_failure \notin {"loop", "embedding"} =>
                q_failure \in {"endpoint", "search"}

\* no endpoint carries the tool's name: the lookup raised and the tool
\* returned the search-failed message
C11_Witness ==
    /\ qpc = "returned"
    /\ Listed(endpoints, tool.index_endpoint_name) = {}
    /\ q_failure = "endpoint"
    /\ tool_result = Return(SearchFailed, <<>>)

(***************************************************************************)
(* The kb_id.                                                              *)
(***************************************************************************)
\* C12: no two submissions produce the same kb_id, so no submission writes
\* its QUEUED entry over the entry of an earlier one
C12_UniqueKbId ==
    \A k \in KbIds : Count(status_log[k], QUEUED) <= 1

(***************************************************************************)
(* Deletes.                                                                *)
(***************************************************************************)
\* a delete reports success with this step
DeleteSucceeds == dpc # "idle" /\ dpc' = "idle" /\ del_result' = DeleteOk

\* C13: when a delete of kb_id reports success, the store holds neither the
\* entry of kb_id nor a chunk document under kb_id
C13_DeleteLeavesNothing ==
    [][DeleteSucceeds =>
          /\ ~kb_docs'[del_kb].exists
          /\ \A c \in chunk_docs' : c.kb_id # del_kb]_vars

(***************************************************************************)
(* What a knowledge base serves.                                           *)
(***************************************************************************)
\* what _async_run of tool t can return in this state when nothing raises:
\* the endpoint is found, find_neighbors gives up to top_k of the datapoints
\* the deployed index serves, and their chunk documents are fetched
QueryAnswers(t) ==
    IF Listed(endpoints, t.index_endpoint_name) = {} THEN {}
    ELSE LET e == endpoints[First(Listed(endpoints, t.index_endpoint_name))] IN
         IF ~IsDeployed(e, t.deployed_index_id) THEN {}
         ELSE {IF found = <<>> THEN Return(NoRelevantContext, <<>>)
               ELSE Answer(FetchedDocs(t.kb_id, found, {})) :
                  found \in DistinctSeqs(Served(e, t.deployed_index_id), TopK)}

\* C14: no query of a knowledge base whose status is FAILED returns chunk
\* content, whatever the run that failed had got done
C14_FailedServesNothing ==
    \A t \in Tools :
        kb_docs[t.kb_id].status = FAILED =>
            \A r \in QueryAnswers(t) : r.docs = <<>>

(***************************************************************************)
(* Vectors and chunk documents.                                            *)
(***************************************************************************)
\* the indexes of kb_id that hold a datapoint of this id
HoldersOf(kb_id, id) ==
    {i \in 1..Len(indexes) : /\ indexes[i].display_name = IndexDisplayName(kb_id)
                             /\ id \in indexes[i].datapoints}

\* every chunk document has a datapoint of its id in an index of its kb_id
RecordsHaveDatapoints ==
    \A c \in chunk_docs : HoldersOf(c.kb_id, c.id) # {}

\* every datapoint of an index of kb_id has its chunk document
DatapointsHaveRecords ==
    \A k \in KbIds, i \in 1..Len(indexes) :
        indexes[i].display_name = IndexDisplayName(k) =>
            \A id \in indexes[i].datapoints : [kb_id |-> k, id |-> id] \in chunk_docs

\* the statement of C15 as it stands: in every state each chunk document has
\* one datapoint and each datapoint has its chunk document
C15_OneToOne ==
    /\ \A c \in chunk_docs : Cardinality(HoldersOf(c.kb_id, c.id)) = 1
    /\ DatapointsHaveRecords

\* C15: in every state each chunk document under kb_id has a datapoint of its
\* id in the index of kb_id; a datapoint can be without its chunk document
C15_RecordsHaveDatapoints ==
    RecordsHaveDatapoints

\* a run has upserted two batches and committed its chunk documents
C15_Witness ==
    /\ ppc = "set_active"
    /\ upserted > BatchLimit
    /\ ChunksOf(run_kb) # {}
    /\ RecordsHaveDatapoints

(***************************************************************************)
(* Failed fetches.                                                         *)
(***************************************************************************)
\* the page records of the results that are pages, in the order of the tasks
SuccessfulPages(r) ==
    LET ok == SelectSeq(r, LAMBDA x : x # None)
    IN [k \in 1..Len(ok) |-> ok[k].page_data]

\* the urls whose every fetch so far has failed
FailedUrls == {u \in AllUrls : fetches[u] > 0 /\ web[u] = Unfetched /\ u \notin Range(tasks)}

\* C16: a fetch that fails adds no page record and leaves the page count as
\* it was, while the pages of the other results of the batch are all added;
\* and the crawl returns only when the frontier is empty or the page count
\* has reached the budget, not because a fetch failed
C16_FailuresSkipped ==
    /\ [][(cpc = "gather" /\ cpc' = "loop") =>
             pages_data' = pages_data \o SuccessfulPages(results)]_vars
    /\ [][(cpc # "done" /\ cpc' = "done") => ~LoopCondition]_vars
    /\ [](FailedUrls \cap PageUrls = {})

\* a fetch failed, and the crawl returned the pages of other urls, one of
\* them a url named after the failed one
C16_Witness ==
    /\ cpc = "done"
    /\ FailedUrls # {}
    /\ Len(pages_data) >= 2
    /\ \E u \in FailedUrls : \E v \in PageUrls : v.path > u.path

(***************************************************************************)
(* A seed page and the pages it links to.                                  *)
(***************************************************************************)
\* the urls of the seed's netloc a fetched page links to
LinkedFrom(u) == Range(SameDomainLinks(web[u].hrefs))

\* the same-domain links of the seed page, the seed itself left out
SeedLinks == LinkedFrom(base_url) \ {base_url}

\* the seed was fetched, the pages it links to name no url but the seed and
\* each other, no fetch has failed and the seed and its links fit the budget
SeedAndLinksOnly ==
    /\ web[base_url] # Unfetched
    /\ \A u \in SeedLinks : web[u] # Unfetched => LinkedFrom(u) \subseteq SeedLinks \cup {base_url}
    /\ \A u \in AllUrls : fetches[u] > 0 => (web[u] # Unfetched \/ u \in Range(tasks))
    /\ Cardinality(SeedLinks) + 1 <= max_pages_per_site

\* C17: a crawl of a seed with k same-domain links whose pages name nothing
\* new, all fetches succeeding and k + 1 within the budget, returns k + 1
\* page records: the seed and each of the k links once, no external url
C17_SeedPlusLinks ==
    (cpc = "done" /\ SeedAndLinksOnly) =>
        /\ Len(pages_data) = Cardinality(SeedLinks) + 1
        /\ PageUrls = SeedLinks \cup {base_url}

\* the seed has two same-domain links, or one and an external link, the
\* linked pages link back, and the crawl has returned
C17_Witness ==
    /\ cpc = "done"
    /\ SeedAndLinksOnly
    /\ \/ Cardinality(SeedLinks) = 2
       \/ /\ Cardinality(SeedLinks) = 1
          /\ \E k \in 1..Len(web[base_url].hrefs) : Netloc(web[base_url].hrefs[k]) # base_domain
    /\ \E u \in SeedLinks : LinkedFrom(u) # {}

(***************************************************************************)
(* Fetching chunk documents by id.                                         *)
(***************************************************************************)
\* the ids of the chunk documents stored under kb_id
StoredIds(kb_id) == {c.id : c \in ChunksOf(kb_id)}

\* fetch_chunks_by_ids has returned to _async_run
FetchReturned ==
    /\ qpc = "close"
    /\ neighbor_results # <<>>
    /\ async_result.kind = "return"
    /\ async_result.message \in {Context, CouldNotRetrieve}

RECURSIVE PartsLength(_)
PartsLength(docs) ==
    IF docs = <<>> THEN 0
    ELSE Len(SourceLabel) + Len(Head(docs).source_url) + Len(ContentLabel)
         + Len(Head(docs).content) + PartsLength(Tail(docs))

\* the statement of C19 as it stands, for a budget of ContextBudget
\* characters: the context is never longer than the budget
C19_WithinBudget ==
    xpc = "done" => Len(context) <= ContextBudget

\* C19: the context holds every document it was given in full, its source
\* url and its content, with a separator between two documents; its length
\* is theirs, whatever that comes to
C19_EveryDocumentInFull ==
    xpc = "done" =>
        Len(context) = PartsLength(chunk_docs_found)
                       + Len(Separator) * (Len(chunk_docs_found) - 1)

\* three documents were assembled into a context longer than the budget
C19_Witness ==
    /\ xpc = "done"
    /\ Len(chunk_docs_found) = TopK
    /\ Len(context) > ContextBudget

(***************************************************************************)
(* "Already exists" during provisioning.                                   *)
(***************************************************************************)
\* C20: a call of setup_infrastructure_for_kb in which a create or a deploy
\* was answered "already exists" returns normally, and no run is marked
\* FAILED with that answer as its error
C20_AlreadyExistsIsSuccess ==
    /\ \A i \in 1..Len(setup_log) : setup_log[i].error = AlreadyExists => setup_log[i].ok
    /\ \A k \in KbIds :
          ~(kb_docs[k].exists /\ kb_docs[k].status = FAILED
            /\ kb_docs[k].error_message = AlreadyExists)

(***************************************************************************)
(* Failed metadata writes.                                                 *)
(***************************************************************************)
\* C21: a metadata write that fails does not stop the run: after a failed
\* status update the run is at the stage that follows the update, and once
\* every batch is upserted the run goes on to set ACTIVE whether the commit
\* of the chunk metadata succeeded or raised
C21_MetadataWritesBestEffort ==
    [][/\ (ppc \in StatusStages /\ failed_writes' # failed_writes
              => ppc' = AfterStatus(ppc))
       /\ (ppc = "upsert" /\ UpsertDone /\ ppc' # ppc => ppc' = "set_active")]_vars

(***************************************************************************)
(* The same id at ingestion and at retrieval.                              *)
(***************************************************************************)
\* the chunks ingested with the text of the query
ChunksWithText(t) == {k \in 1..Len(chunk_metas) : chunk_metas[k].content = t}

\* the ingested chunk of an id
MetaOfId(id) == CHOOSE m \in {chunk_metas[k] : k \in 1..Len(chunk_metas)} : m.id = id

\* C22: once the chunks are upserted and stored and a query has been
\* answered, every id the search returned is resolved, in order, to the
\* record ingested under that id, with the content whose vector the
\* datapoint holds; and when a chunk with the text of the query was
\* ingested, the first result is at distance 0 and is that chunk, unless
\* another chunk has the same vector
C22_SameIdRoundTrip ==
    rpc = "resolved" =>
        /\ Len(resolved) = Len(query_results)
        /\ \A i \in DOMAIN query_results :
              /\ resolved[i] = MetaOfId(query_results[i].id)
              /\ \E d \in index_datapoints :
                    /\ d.datapoint_id = query_results[i].id
                    /\ d.feature_vector = embedding_model[resolved[i].content]
        /\ \A k \in ChunksWithText(query_text) :
              /\ query_results[1].distance = 0
              /\ (\A j \in 1..Len(chunk_metas) :
                     embedding_model[chunk_metas[j].content]
                         = embedding_model[query_text] => j = k)
                 => /\ query_results[1].id = chunk_metas[k].id
                    /\ resolved[1].content = query_text

\* more chunks than the search returns were ingested, the text of the
\* query is that of the last one alone, and it came back first
C22_Witness ==
    /\ rpc = "resolved"
    /\ Len(chunk_metas) > TopK
    /\ ChunksWithText(query_text) = {Len(chunk_metas)}
    /\ query_results[1].id = chunk_metas[Len(chunk_metas)].id
    /\ resolved[1].content = query_text
    /\ \E i \in DOMAIN query_results : query_results[i].distance > 0

(***************************************************************************)
(* Fetches in flight and the order of the batches.                         *)
(***************************************************************************)
\* the urls whose page a fetch has returned
Answered == {u \in AllUrls : web[u].fetched}

\* C23: never more than max_concurrent_requests fetches are in flight;
\* outside the gather of a batch none is; and a fetch is issued only for a
\* url of the batch in progress that has no result yet, when every page an
\* earlier batch fetched has been merged into pages_data
C23_BoundedSequentialBatches ==
    /\ [](Cardinality(holding) <= max_concurrent_requests)
    /\ [](cpc # "gather" => holding = {} /\ tasks = <<>>)
    /\ [][fetches' # fetches =>
            /\ cpc = "gather"
            /\ \E i \in 1..Len(tasks) : /\ results[i] = Pending
                                          /\ fetches' = [fetches EXCEPT ![tasks[i]] = @ + 1]
            /\ Answered \ Range(tasks) \subseteq PageUrls]_vars

\* as many fetches as the limit allows are in flight in a batch that is not
\* the first
C23_Witness ==
    /\ cpc = "gather"
    /\ visited_urls # {}
    /\ max_concurrent_requests > 1
    /\ Cardinality(holding) = max_concurrent_requests

(***************************************************************************)
(* Retries of a fetch.                                                     *)
(***************************************************************************)
\* the attempt at which retrying stops: the first whose request does not
\* raise or time out, or the last allowed
AttemptsDue ==
    IF \E k \in 1..StopAfterAttempt : responses[k] \notin Transient
    THEN CHOOSE k \in 1..StopAfterAttempt :
             /\ responses[k] \notin Transient
             /\ \A j \in 1..(k - 1) : responses[j] \in Transient
    ELSE StopAfterAttempt

C25_Terminates ==
    /\ <>(cpc = "done")
    /\ [](cpc = "done" =>
            urls_to_visit = <<>> \/ Len(pages_data) >= max_pages_per_site)

\* a session has returned over a site in which a page links back to the
\* seed, with urls left in the frontier
C25_Witness ==
    /\ cpc = "done"
    /\ urls_to_visit # <<>>
    /\ \E u \in AllUrls : \E k \in 1..Len(web[u].hrefs) : web[u].hrefs[k] = base_url

(***************************************************************************)
(* The running total of a crawl session.                                   *)
(***************************************************************************)
\* the urls of the batch being processed: sliced off the frontier, their
\* results not merged yet
InFlight == IF cpc = "gather" THEN Len(batch_urls) ELSE 0

\* C26: in every state of a crawl session the pages fetched plus the urls
\* queued, those of the batch being processed included, stay within
\* max_pages_per_site
C26_RunningTotal ==
    Len(pages_data) + Len(urls_to_visit) + InFlight <= max_pages_per_site

(***************************************************************************)
(* The chunker's split rule.                                               *)
(***************************************************************************)
\* the windows cut so far that were not the last of their text
NonFinal == IF kpc = "done" THEN 1..(Len(windows) - 1) ELSE 1..Len(windows)

\* C27: a window that is not the last one ends right after its last '.' or
\* newline when that character lies past the window's midpoint (offset
\* inside the window > max_chunk_size // 2), and at start + max_chunk_size
\* otherwise, whatever the window's start
C27_SplitPastMidpoint ==
    \A k \in NonFinal :
        LET s == windows[k].start
        IN s >= 0 =>
              windows[k].end = IF SplitPoint(s) > max_chunk_size \div 2
                               THEN s + SplitPoint(s) + 1
                               ELSE s + max_chunk_size

(***************************************************************************)
(* The chunker's overlap.                                                  *)
(***************************************************************************)
NoTerminators == \A i \in 1..Len(text) : text[i] \notin {Period, Newline}

\* C28: every chunk after the first starts exactly overlap characters
\* before the end of the chunk before it and shares exactly overlap
\* characters with it; a text without terminators longer than
\* max_chunk_size and no longer than 2 * max_chunk_size - overlap gives
\* exactly two chunks, the second starting at max_chunk_size - overlap
C28_ExactOverlap ==
    /\ \A k \in 2..Len(windows) :
          /\ windows[k].start = windows[k - 1].end - overlap
          /\ chunks[k] = Slice(text, windows[k].start, windows[k].end)
          /\ Covered(windows[k]) \cap Covered(windows[k - 1]) =
                 {i \in 0..(Len(text) - 1) :
                     windows[k - 1].end - overlap <= i /\ i < windows[k - 1].end}
    /\ (/\ kpc = "done"
        /\ NoTerminators
        /\ max_chunk_size < Len(text)
        /\ Len(text) <= 2 * max_chunk_size - overlap)
           => /\ Len(chunks) = 2
              /\ chunks[2] = SliceFrom(text, max_chunk_size - overlap)

(***************************************************************************)
(* Deployment is one blocking step.                                        *)
(***************************************************************************)
\* the calls of setup_infrastructure_for_kb a pipeline run has made
CallsOfRun(r) == {i \in 1..Len(setup_log) : setup_log[i].run = r}

\* C29: a call of setup_infrastructure_for_kb issues deploy_index at most
\* once, and only when the deployed index id was not among the endpoint's
\* deployments; a pipeline run calls it once, so a deploy that raised is
\* not issued again by the run
C29_DeployOnceNeverRetried ==
    /\ \A i \in 1..Len(setup_log) :
          /\ setup_log[i].deploy_calls <= 1
          /\ setup_log[i].deploy_calls = 1 => ~setup_log[i].deployed_before
          /\ setup_log[i].deploy_issued => setup_log[i].deploy_calls = 1
    /\ \A r \in 1..RunsStarted : Cardinality(CallsOfRun(r)) <= 1
    /\ CallsOfRun(0) = {}

\* a run whose deploy_index call raised has ended with its entry FAILED
C29_Witness ==
    /\ ppc = "idle"
    /\ \E i \in 1..Len(setup_log) :
          /\ ~setup_log[i].ok
          /\ setup_log[i].deploy_calls = 1
          /\ setup_log[i].run = RunsStarted
          /\ kb_docs[setup_log[i].kb_id].status = FAILED

(***************************************************************************)
(* upsert_to_vector_search: the batches.                                   *)
(***************************************************************************)
RECURSIVE Flatten(_)
Flatten(seqs) == IF seqs = <<>> THEN <<>> ELSE Head(seqs) \o Flatten(Tail(seqs))

\* the datapoints sent so far, call after call
Sent == Flatten([c \in 1..Len(upsert_calls) |-> upsert_calls[c].batch])

Ceil(n, d) == (n + d - 1) \div d

\* C30: the datapoints are sent in list order in calls of at most
\* BatchLimit datapoints, each datapoint in one call; all of them in
\* ceil(n / BatchLimit) calls when no call raises; after a call that
\* raised no further call is made and the batches sent before it stay in
\* the index
C30_SequentialBatches ==
    /\ \A c \in 1..Len(upsert_calls) :
          /\ upsert_calls[c].batch # <<>>
          /\ Len(upsert_calls[c].batch) <= BatchLimit
          /\ c < Len(upsert_calls) => /\ upsert_calls[c].returned
                                      /\ Len(upsert_calls[c].batch) = BatchLimit
          /\ upsert_calls[c].returned =>
                Ids(upsert_calls[c].batch) \subseteq indexes[my_index].datapoints
    /\ Len(Sent) <= Len(text_chunks)
    /\ Sent = SubSeq(text_chunks, 1, Len(Sent))
    /\ ((ppc = "upsert" /\ UpsertDone) \/ ppc = "set_active") =>
          /\ Sent = text_chunks
          /\ Len(upsert_calls) = Ceil(Len(text_chunks), BatchLimit)

\* the second call of a run raised: the first batch is in the index, the
\* rest of the datapoints were never sent
C30_Witness ==
    /\ Len(upsert_calls) = 2
    /\ ~upsert_calls[2].returned
    /\ ppc = "idle"
    /\ Len(text_chunks) > BatchLimit

(***************************************************************************)
(* The order of the stages of a pipeline run.                              *)
(***************************************************************************)
StageOrder == <<"set_crawling", "crawl", "update_pages", "set_indexing", "chunk",
                "embed", "provision", "upsert", "set_active">>

StageIndex(pc) == CHOOSE i \in 1..Len(StageOrder) : StageOrder[i] = pc

\* C31: a run goes through its stages in the order CRAWLING, crawl, page
\* counts, INDEXING, chunk, embed, provision, upsert and store, ACTIVE
\* (leaving it only for the except clause), and until the crawl has
\* returned nothing of the run is chunked, provisioned or upserted
C31_StageOrder ==
    /\ [][ppc' # ppc =>
            \/ ppc = "idle" /\ ppc' = "set_crawling"
            \/ ppc \in {"set_active", "set_failed"} /\ ppc' = "idle"
            \/ ppc \in {"crawl", "embed", "provision", "upsert"} /\ ppc' = "set_failed"
            \/ /\ ppc \in Range(StageOrder)
               /\ ppc' \in Range(StageOrder)
               /\ StageIndex(ppc') = StageIndex(ppc) + 1]_vars
    /\ [][/\ (text_chunks' # text_chunks /\ ppc # "idle") => ppc = "chunk"
          /\ setup_log' # setup_log => ppc = "provision"
          /\ (upsert_calls' # upsert_calls /\ ppc # "idle") => ppc = "upsert"
          /\ chunk_docs' # chunk_docs => ppc = "upsert" /\ UpsertDone]_vars
    /\ [](ppc \in {"set_crawling", "crawl"} =>
            /\ text_chunks = <<>>
            /\ upsert_calls = <<>>
            /\ CallsOfRun(RunsStarted) = {}
            /\ spc = "idle")

\* a run has gone through every stage and is about to write ACTIVE
C31_Witness ==
    /\ ppc = "set_active"
    /\ pages_data # <<>>
    /\ Len(upsert_calls) = 2
    /\ CallsOfRun(RunsStarted) # {}

(***************************************************************************)
(* The chunk ids of one ingestion run.                                     *)
(***************************************************************************)
\* the chunk metadata _create_vector_index builds from the pages the crawl
\* returned when each page splits into n chunks
GeneratedChunks(kb_id, n) ==
    AllPageChunks(kb_id, pages_data, [k \in 1..Len(pages_data) |-> n])

\* C32: the chunks generated from the pages a crawl returned have pairwise
\* distinct ids
C32_DistinctChunkIds ==
    cpc = "done" =>
        \A n \in 1..MaxPageChunks :
            LET metas == GeneratedChunks(TripKb, n)
            IN \A a, b \in 1..Len(metas) : a # b => metas[a].id # metas[b].id

(***************************************************************************)
(* Completeness of the crawl.                                              *)
(***************************************************************************)
\* the urls of the site known so far: the seed and every same-domain link
\* of a fetched page.  When each of them was fetched they are the urls
\* reachable from the seed
Discovered == {base_url} \cup UNION {LinkedFrom(u) : u \in Answered}

\* C33: when every fetch succeeded and the urls reachable from the seed are
\* no more than max_pages_per_site, the crawl returns one page record for
\* each of them and no other
C33_Complete ==
    (/\ cpc = "done"
     /\ FailedUrls = {}
     /\ Cardinality(Discovered) <= max_pages_per_site)
        => /\ PageUrls = Discovered
           /\ Len(pages_data) = Cardinality(Discovered)

(***************************************************************************)
(* Attribution of the results of a batch.                                  *)
(***************************************************************************)
\* the urls a GET was issued for
Requested == {u \in AllUrls : fetches[u] > 0}

\* C34: once a batch is merged visited_urls is exactly the urls fetched so
\* far, no url of the frontier is visited or in the batch being processed,
\* and no url is in the frontier twice
C34_ResultsAttributed ==
    /\ cpc \in {"loop", "done"} => visited_urls = Requested
    /\ Range(urls_to_visit) \cap visited_urls = {}
    /\ cpc = "gather" => Range(urls_to_visit) \cap Range(batch_urls) = {}
    /\ \A i, j \in 1..Len(urls_to_visit) : i # j => urls_to_visit[i] # urls_to_visit[j]

(***************************************************************************)
(* What ACTIVE stands for.                                                 *)
(***************************************************************************)
\* the index of kb_id is deployed to the endpoint of kb_id under the
\* deployed index id of kb_id
DeployedFor(kb_id) ==
    \E e \in 1..Len(endpoints) :
        /\ endpoints[e].display_name = EndpointDisplayName(kb_id)
        /\ \E d \in endpoints[e].deployed_indexes :
              /\ d.id = DeployedIndexId(kb_id)
              /\ indexes[d.index].display_name = IndexDisplayName(kb_id)

\* the chunks the run generated all have their datapoint in the index the
\* run provisioned and their document under run_kb
RunStored ==
    /\ pages_data # <<>>
    /\ text_chunks # <<>>
    /\ DeployedFor(run_kb)
    /\ \A k \in 1..Len(text_chunks) :
          /\ text_chunks[k].id \in indexes[my_index].datapoints
          /\ [kb_id |-> run_kb, id |-> text_chunks[k].id] \in chunk_docs

RunEnds == ppc # "idle" /\ ppc' = "idle"

Terminates == (ppc # "idle" \/ queue # <<>>) ~> (ppc = "idle" /\ queue = <<>>)

\* the statement of C36 as it stands: every run ends, and when it ends the
\* entry is ACTIVE or FAILED
C36_EndsActiveOrFailed ==
    /\ Terminates
    /\ [][RunEnds => kb_docs'[run_kb].status \in {ACTIVE, FAILED}]_vars

\* C36: every run ends, and when it ends the entry is ACTIVE or FAILED
\* unless the run's last status write raised, which leaves the entry as it
\* was
C36_EndsActiveOrFailedUnlessWriteFails ==
    /\ Terminates
    /\ [][RunEnds =>
            IF StageStatus(ppc) \in failed_writes'
            THEN kb_docs' = kb_docs
            ELSE kb_docs'[run_kb].status = StageStatus(ppc)
                   /\ StageStatus(ppc) \in {ACTIVE, FAILED}]_vars

\* a run has ended whose upsert raised and whose write of FAILED raised as
\* well: the entry is left INDEXING
C36_Witness ==
    /\ ppc = "idle"
    /\ run_kb # NoKb
    /\ run_error = "upsert error"
    /\ FAILED \in failed_writes
    /\ kb_docs[run_kb].status = INDEXING


(***************************************************************************)
(* The names of the two sides.  urlparse(url).netloc keeps the case and    *)
(* the hyphens of the host the caller wrote.                               *)
(***************************************************************************)
Netlocs == {<<"A", ".", "b">>, <<"a", ".", "b">>, <<"a", "-", "b">>}

NetlocKbIds == {GenerateKbId(d, t) : d \in Netlocs, t \in Timestamps}

DefaultTools == {DefaultTool(k) : k \in KbIds}

QuerySideAgrees(t) ==
    /\ t.index_endpoint_name = EndpointDisplayName(t.kb_id)
    /\ t.deployed_index_id = DeployedIndexId(t.kb_id)

DistinctDisplayNames(ids) ==
    \A k1, k2 \in ids :
        k1 # k2 => /\ IndexDisplayName(k1) # IndexDisplayName(k2)
                   /\ EndpointDisplayName(k1) # EndpointDisplayName(k2)

\* C37: the endpoint display name and the deployed index id of a tool built
\* from the ProxyAgent defaults are the ones setup_infrastructure_for_kb
\* derives for the same kb_id, and two different generated kb_ids never
\* share an index or endpoint display name.
C37_NamesAgree ==
    /\ (qpc # "idle" /\ tool \in DefaultTools) => QuerySideAgrees(tool)
    /\ DistinctDisplayNames(NetlocKbIds)


(***************************************************************************)
(* A delete beside the run of the same kb_id.                              *)
(***************************************************************************)
\* kb_id was submitted once, so one run works on it
OneRunOf(kb_id) == Count(status_log[kb_id], QUEUED) = 1

\* the run of run_kb ends with this step, a delete of run_kb has reported
\* success, and the run wrote a status to the entry before the delete took
\* the entry away: the delete went on while the run was in progress
RunEndsAfterDelete ==
    /\ RunEnds
    /\ OneRunOf(run_kb)
    /\ run_writes # <<>>
    /\ dpc = "idle"
    /\ del_kb = run_kb
    /\ del_result = DeleteOk

\* delete_knowledge_base returns False with this step; its kb_id had an
\* entry when it began, since no delete came before
ReturnsFalse ==
    /\ dpc # "idle"
    /\ dpc' = "idle"
    /\ del_via = "service"
    /\ del_result' = DeleteFailed
    /\ deletes = 1

\* C38: when a delete of kb_id went on beside the run of kb_id and both
\* have finished, the store holds neither the entry nor a chunk document
\* of kb_id; and a delete that returns False has removed neither the entry
\* nor a chunk document
C38_DeleteBesideRun ==
    /\ [][RunEndsAfterDelete =>
             /\ ~kb_docs'[run_kb].exists
             /\ \A c \in chunk_docs' : c.kb_id # run_kb]_vars
    /\ [][ReturnsFalse =>
             /\ kb_docs'[del_kb].exists
             /\ \A c \in chunk_docs : c.kb_id = del_kb => c \in chunk_docs']_vars

====
